---- MODULE Spec2Model ----
(***************************************************************************)
(* Model of generate-csv-column.js: the batch execution engine             *)
(* (processRow, processBatch, processColumn, main) and the pure helpers    *)
(* it uses (fillPromptTemplate, the group-response decoding).              *)
(*                                                                         *)
(* Text is modelled character by character: a string is a sequence of      *)
(* one-character strings.  The modelled texts are drawn from an alphabet   *)
(* without backslash, '.', '[' and ']' (JSON escapes, fractions and arrays *)
(* are outside it); numbers are integers never followed by a letter.       *)
(***************************************************************************)
EXTENDS Integers, Sequences, FiniteSets, Bags, TLC

(***************************************************************************)
(* Characters                                                              *)
(***************************************************************************)
Letters ==
  {"a","b","c","d","e","f","g","h","i","j","k","l","m",
   "n","o","p","q","r","s","t","u","v","w","x","y","z",
   "A","B","C","D","E","F","G","H","I","J","K","L","M",
   "N","O","P","Q","R","S","T","U","V","W","X","Y","Z"}

Digits == {"0","1","2","3","4","5","6","7","8","9"}

\* \w of a JavaScript regular expression
WordChars == Letters \cup Digits \cup {"_"}

\* \s of a JavaScript regular expression, and what String.prototype.trim removes
SpaceChars == {" ", "\n", "\t", "\r"}

\* the whitespace JSON.parse skips between tokens
JsonSpace == {" ", "\n", "\t", "\r"}

\* the grave accent (U+0060) of a code fence, which a TLA+ string cannot spell
Backtick == "grave"

\* the characters of the modelled texts
Alphabet == WordChars \cup SpaceChars \cup {"{", "}", ":", ",", "-", "\"", Backtick}

\* the characters a JSON string literal may hold unescaped
JsonStringChars == Alphabet \ {"\"", "\n", "\t", "\r"}

\* the characters of s at positions a..b that s has
Sub(s, a, b) ==
  LET lo == IF a < 1 THEN 1 ELSE a
      hi == IF b > Len(s) THEN Len(s) ELSE b
  IN IF lo > hi THEN <<>> ELSE SubSeq(s, lo, hi)

\* s.startsWith(p)
StartsWith(s, p) == Len(s) >= Len(p) /\ Sub(s, 1, Len(p)) = p

\* the first position >= i holding a character outside cs (Len(s)+1 if none)
RECURSIVE SkipChars(_, _, _)
SkipChars(s, i, cs) ==
  IF i <= Len(s) /\ s[i] \in cs THEN SkipChars(s, i + 1, cs) ELSE i

\* the last position <= i holding a character outside cs (0 if none)
RECURSIVE SkipCharsBack(_, _, _)
SkipCharsBack(s, i, cs) ==
  IF i >= 1 /\ s[i] \in cs THEN SkipCharsBack(s, i - 1, cs) ELSE i

\* String.prototype.trim
Trim(s) == Sub(s, SkipChars(s, 1, SpaceChars), SkipCharsBack(s, Len(s), SpaceChars))

(***************************************************************************)
(* JavaScript values held in a row or decoded from JSON.                   *)
(*   t = "str": the string s          t = "num": the integer with digits s *)
(*   t = "lit": true, false or null (s spells it)                          *)
(*   t = "obj": the object with members m, a sequence of [k, v] in key     *)
(*              insertion order                                            *)
(***************************************************************************)
Str(s) == [t |-> "str", s |-> s, m |-> <<>>]
Num(s) == [t |-> "num", s |-> s, m |-> <<>>]
Lit(s) == [t |-> "lit", s |-> s, m |-> <<>>]
Obj(m) == [t |-> "obj", s |-> <<>>, m |-> m]

TrueText == <<"t","r","u","e">>
FalseText == <<"f","a","l","s","e">>
NullText == <<"n","u","l","l">>

\* ToBoolean: "", 0, -0, false and null are falsy
Truthy(v) ==
  CASE v.t = "str" -> v.s # <<>>
    [] v.t = "num" -> \E i \in 1..Len(v.s) : v.s[i] \in (Digits \ {"0"})
    [] v.t = "lit" -> v.s = TrueText
    [] OTHER -> TRUE

\* String(v), as String.prototype.replace applies it to a replacement
ToStr(v) ==
  CASE v.t = "str" -> v.s
    [] v.t = "num" -> IF Truthy(v) THEN v.s ELSE <<"0">>
    [] v.t = "lit" -> v.s
    [] OTHER -> <<"[","o","b","j","e","c","t"," ","O","b","j","e","c","t","]">>

(***************************************************************************)
(* Objects as ordered maps: a sequence of members [k |-> key, v |-> value] *)
(***************************************************************************)
Keys(m) == {m[i].k : i \in 1..Len(m)}

HasKey(m, k) == k \in Keys(m)

Get(m, k) == m[CHOOSE i \in 1..Len(m) : m[i].k = k].v

\* an array index: a canonical numeric string ("0", "7", "12"; not "07").  Names
\* here are far shorter than the ten digits of the largest index, 2^32 - 2
IsArrayIndex(k) ==
  /\ k # <<>>
  /\ \A n \in 1..Len(k) : k[n] \in Digits
  /\ Len(k) > 1 => k[1] # "0"

DigitValue(c) ==
  CASE c = "0" -> 0 [] c = "1" -> 1 [] c = "2" -> 2 [] c = "3" -> 3 [] c = "4" -> 4
    [] c = "5" -> 5 [] c = "6" -> 6 [] c = "7" -> 7 [] c = "8" -> 8 [] OTHER -> 9

RECURSIVE IndexValue(_)
IndexValue(k) ==
  IF k = <<>> THEN 0
  ELSE 10 * IndexValue(SubSeq(k, 1, Len(k) - 1)) + DigitValue(k[Len(k)])

\* the members of m that a new array index k goes after: the array indices
\* below it
IndexesBelow(m, k) ==
  Cardinality({n \in 1..Len(m) : IsArrayIndex(m[n].k) /\ IndexValue(m[n].k) < IndexValue(k)})

\* m[k] = v: an existing key keeps its place; a new key goes last, unless it is
\* an array index: those are kept in ascending order before every other key
Put(m, k, v) ==
  IF HasKey(m, k)
  THEN [n \in 1..Len(m) |-> IF m[n].k = k THEN [k |-> k, v |-> v] ELSE m[n]]
  ELSE IF IsArrayIndex(k)
  THEN LET b == IndexesBelow(m, k)
       IN SubSeq(m, 1, b) \o <<[k |-> k, v |-> v]>> \o SubSeq(m, b + 1, Len(m))
  ELSE Append(m, [k |-> k, v |-> v])

\* Object.keys(m)
ObjectKeys(m) == [i \in 1..Len(m) |-> m[i].k]

(***************************************************************************)
(* fillPromptTemplate                                                      *)
(***************************************************************************)
\* the position of the last character of a match of
\* /\{\{(\w+(?:\s+\w+)*)\}\}/ starting at position i of s, or 0 if none does
MatchEnd(s, i) ==
  LET e == SkipChars(s, i + 2, WordChars \cup SpaceChars) - 1
  IN IF /\ i + 1 <= Len(s) /\ s[i] = "{" /\ s[i + 1] = "{"
        /\ e >= i + 2
        /\ s[i + 2] \in WordChars /\ s[e] \in WordChars
        /\ e + 2 <= Len(s) /\ s[e + 1] = "}" /\ s[e + 2] = "}"
     THEN e + 2
     ELSE 0

\* names every object inherits from Object.prototype (two of them): looked up
\* in a row that has no such field, they yield a function
ConstructorName == <<"c", "o", "n", "s", "t", "r", "u", "c", "t", "o", "r">>
ToStringName == <<"t", "o", "S", "t", "r", "i", "n", "g">>
PrototypeMembers == {ConstructorName, ToStringName}

\* the text of such a function: "function Object() { [native code] }"
InheritedText(name) ==
  <<"f", "u", "n", "c", "t", "i", "o", "n", " ">>
    \o (IF name = ConstructorName THEN <<"O", "b", "j", "e", "c", "t">> ELSE name)
    \o <<"(", ")", " ", "{", " ", "[", "n", "a", "t", "i", "v", "e", " ",
          "c", "o", "d", "e", "]", " ", "}">>

\* the replacer callback: rowData[columnName] if it is not undefined (the row's
\* field of that name or, without one, what the name inherits), else the match
Replacement(match, columnName, rowData) ==
  IF HasKey(rowData, columnName) THEN ToStr(Get(rowData, columnName))
  ELSE IF columnName \in PrototypeMembers THEN InheritedText(columnName)
  ELSE match

\* the global replace, scanning s from position i
RECURSIVE FillFrom(_, _, _)
FillFrom(s, i, rowData) ==
  IF i > Len(s) THEN <<>>
  ELSE LET e == MatchEnd(s, i)
       IN IF e = 0
          THEN <<s[i]>> \o FillFrom(s, i + 1, rowData)
          ELSE Replacement(Sub(s, i, e), Sub(s, i + 2, e - 2), rowData)
                 \o FillFrom(s, e + 1, rowData)

fillPromptTemplate(prompt, rowData) == FillFrom(prompt, 1, rowData)

(***************************************************************************)
(* JSON.parse, for texts over the modelled alphabet.  A parse result is    *)
(* [ok, v, p]: whether a value was read, the value, and the position after *)
(* it.                                                                     *)
(***************************************************************************)
NoValue == Lit(<<>>)
ParseFail == [ok |-> FALSE, v |-> NoValue, p |-> 0]
Parsed(v, p) == [ok |-> TRUE, v |-> v, p |-> p]

\* a string literal whose opening quote is at position i
ParseString(s, i) ==
  LET e == SkipChars(s, i + 1, JsonStringChars)
  IN IF e <= Len(s) /\ s[e] = "\"" THEN Parsed(Str(Sub(s, i + 1, e - 1)), e + 1)
     ELSE ParseFail

\* an integer starting at position i
ParseNumber(s, i) ==
  LET d == IF s[i] = "-" THEN i + 1 ELSE i
      e == SkipChars(s, d, Digits)
  IN IF e = d \/ (s[d] = "0" /\ e > d + 1) THEN ParseFail
     ELSE Parsed(Num(Sub(s, i, e - 1)), e)

ParseLiteral(s, i, text) ==
  IF Sub(s, i, i + Len(text) - 1) = text /\ i + Len(text) - 1 <= Len(s)
  THEN Parsed(Lit(text), i + Len(text))
  ELSE ParseFail

RECURSIVE ParseValue(_, _)
RECURSIVE ParseMembers(_, _, _)

\* the members of an object, from position i (just after "{" or ","), added
\* to m; a repeated key keeps its first place and takes the last value
ParseMembers(s, i, m) ==
  LET k == SkipChars(s, i, JsonSpace)
      key == IF k <= Len(s) /\ s[k] = "\"" THEN ParseString(s, k) ELSE ParseFail
      c == SkipChars(s, key.p, JsonSpace)
      val == IF key.ok /\ c <= Len(s) /\ s[c] = ":" THEN ParseValue(s, c + 1)
             ELSE ParseFail
      n == SkipChars(s, val.p, JsonSpace)
  IN IF ~val.ok \/ n > Len(s) THEN ParseFail
     ELSE IF s[n] = "," THEN ParseMembers(s, n + 1, Put(m, key.v.s, val.v))
     ELSE IF s[n] = "}" THEN Parsed(Obj(Put(m, key.v.s, val.v)), n + 1)
     ELSE ParseFail

\* a value, after optional whitespace, from position i
ParseValue(s, i) ==
  LET k == SkipChars(s, i, JsonSpace)
  IN IF k > Len(s) THEN ParseFail
     ELSE IF s[k] = "\"" THEN ParseString(s, k)
     ELSE IF s[k] \in Digits \cup {"-"} THEN ParseNumber(s, k)
     ELSE IF s[k] = "t" THEN ParseLiteral(s, k, TrueText)
     ELSE IF s[k] = "f" THEN ParseLiteral(s, k, FalseText)
     ELSE IF s[k] = "n" THEN ParseLiteral(s, k, NullText)
     ELSE IF s[k] = "{"
          THEN LET c == SkipChars(s, k + 1, JsonSpace)
               IN IF c <= Len(s) /\ s[c] = "}" THEN Parsed(Obj(<<>>), c + 1)
                  ELSE ParseMembers(s, k + 1, <<>>)
     ELSE ParseFail

\* JSON.parse(text): a value followed by nothing but whitespace, else a throw
JSONparse(text) ==
  LET r == ParseValue(text, 1)
  IN IF r.ok /\ SkipChars(text, r.p, JsonSpace) > Len(text) THEN r ELSE ParseFail

(***************************************************************************)
(* callOpenRouterAPI: what it returns for a reply of the model API.  A     *)
(* reply is [content, hasUsage, cost, prompt_tokens, completion_tokens].   *)
(***************************************************************************)
apiResultOf(reply) ==
  [result           |-> Trim(reply.content),
   cost             |-> IF reply.hasUsage THEN reply.cost ELSE 0,
   promptTokens     |-> IF reply.hasUsage THEN reply.prompt_tokens ELSE 0,
   completionTokens |-> IF reply.hasUsage THEN reply.completion_tokens ELSE 0]

(***************************************************************************)
(* processRow: storing the result in the row.  columnInfo is               *)
(* [isGroup, name, columns]: a single column's name, or a group's columns. *)
(***************************************************************************)
Fence == <<Backtick, Backtick, Backtick>>

Undetectable ==
  Str(<<"_","_","u","n","d","e","t","e","c","t","a","b","l","e","_","_">>)

\* jsonText.replace(/^```(?:json)?\s*\n?/, ''), for a text that starts with a fence
StripOpeningFence(text) ==
  LET a == IF Sub(text, 4, 7) = <<"j","s","o","n">> /\ Len(text) >= 7 THEN 8 ELSE 4
  IN Sub(text, SkipChars(text, a, SpaceChars), Len(text))

\* jsonText.replace(/\n?```\s*$/, '')
StripClosingFence(text) ==
  LET e == SkipCharsBack(text, Len(text), SpaceChars)
      q == e - 2
  IN IF q >= 1 /\ Sub(text, q, e) = Fence
     THEN IF q > 1 /\ text[q - 1] = "\n" THEN Sub(text, 1, q - 2)
          ELSE Sub(text, 1, q - 1)
     ELSE text

StripFences(result) ==
  LET jsonText == Trim(result)
  IN IF StartsWith(jsonText, Fence)
     THEN StripClosingFence(StripOpeningFence(jsonText))
     ELSE jsonText

\* parsed[colName] || '__undetectable__'
FieldOrUndetectable(parsed, colName) ==
  IF parsed.t = "obj" /\ HasKey(parsed.m, colName) /\ Truthy(Get(parsed.m, colName))
  THEN Get(parsed.m, colName)
  ELSE Undetectable

\* row with every column of columns[i..] set by f
RECURSIVE SetColumns(_, _, _, _)
SetColumns(row, columns, i, parsed) ==
  IF i > Len(columns) THEN row
  ELSE SetColumns(Put(row, columns[i], FieldOrUndetectable(parsed, columns[i])),
                  columns, i + 1, parsed)

\* the try/catch of a group: a text that does not decode, and a decoded null
\* (whose property read throws), leave every column undetectable
StoreGroup(row, columns, result) ==
  LET r == JSONparse(StripFences(result))
  IN IF r.ok /\ r.v # Lit(NullText)
     THEN SetColumns(row, columns, 1, r.v)
     ELSE SetColumns(row, columns, 1, NoValue)

StoreResult(row, columnInfo, result) ==
  IF columnInfo.isGroup
  THEN StoreGroup(row, columnInfo.columns, result)
  ELSE Put(row, columnInfo.name, Str(result))

\* a decode error that is not caught and rejects the promise
ProcessRowEndsUncaught(info, result) ==
  IF info.isGroup /\ ~JSONparse(StripFences(result)).ok THEN "rejected" ELSE "fulfilled"

\* how processRow's promise ends once the model call has returned: it returns
\* normally whatever the result is, a group's decode error being caught
ProcessRowEnds(info, result) == "fulfilled"

\* the outcome processRow returns
RowOutcome(apiResult, rowIndex) ==
  [success          |-> TRUE,
   cost             |-> apiResult.cost,
   promptTokens     |-> apiResult.promptTokens,
   completionTokens |-> apiResult.completionTokens,
   rowIndex         |-> rowIndex]

(***************************************************************************)
(* Bounds and inputs of the model                                          *)
(***************************************************************************)
\* rows of the input CSV
NumRows == 3

\* a model call that has failed more than this many times for a row within a
\* batch is taken to fail for good (a permanent error); up to it, it may recover
MaxTransientFailures == 2

\* processBatch's default retry ceiling
maxRetries == 10

\* a batch loop whose index runs below zero is cut off this far down
MaxIdleBatches == 3

\* the batch size and cooldown validation fills in for a falsy one
DefaultBatchSize == 10
DefaultCooldown == 0

Min(a, b) == IF a < b THEN a ELSE b

RECURSIVE Pow2(_)
Pow2(n) == IF n = 0 THEN 1 ELSE 2 * Pow2(n - 1)

\* the input CSV: a header line and the records, one original field V per row
RowLetters == <<"a", "b", "c", "d", "e", "f">>
InputCsv ==
  [header |-> << <<"V">> >>, records |-> [n \in 1..NumRows |-> << <<RowLetters[n]>> >>]]

\* an input whose second field is named 7, and one with a header line only
NumberedCsv ==
  [header |-> << <<"V">>, <<"7">> >>,
   records |-> [n \in 1..NumRows |-> << <<RowLetters[n]>>, <<"k">> >>]]
EmptyCsv == [header |-> << <<"V">> >>, records |-> <<>>]

\* csv-parser: the cells of a record are assigned to a new object under the
\* names of the header line, from left to right
RECURSIVE RowOfCells(_, _, _)
RowOfCells(header, cells, n) ==
  IF n = 0 THEN <<>>
  ELSE Put(RowOfCells(header, cells, n - 1), header[n], Str(cells[n]))

readCSV(file) ==
  [n \in 1..Len(file.records) |->
     RowOfCells(file.header, file.records[n], Len(file.header))]

InputRows == readCSV(InputCsv)

\* the files a configuration can name as its input
InputName == <<"i">>
NumberedName == <<"n">>
EmptyName == <<"e">>
InputFileAt(name) ==
  CASE name = NumberedName -> NumberedCsv
    [] name = EmptyName -> EmptyCsv
    [] OTHER -> InputCsv

\* rows[j] for the 0-based index j of the code
RowAt(rs, j) == rs[j + 1]

Q == "\""
FieldS == <<"S">>
FieldA == <<"A">>
FieldB == <<"B">>

\* "p{{V}}" and "{{S}}:{{A}}"
PromptS == <<"p", "{", "{", "V", "}", "}">>
PromptG == <<"{", "{", "S", "}", "}", ":", "{", "{", "A", "}", "}">>

Absent == <<>>

SingleColumn(batchSize, cooldown) ==
  [group |-> FALSE, name |-> FieldS, modelName |-> <<"m">>, prompt |-> PromptS,
   columns |-> Absent, batchSize |-> batchSize, cooldown |-> cooldown]

GroupColumn(batchSize, cooldown) ==
  [group |-> TRUE, name |-> <<"G">>, modelName |-> <<"m">>, prompt |-> PromptG,
   columns |-> <<FieldA, FieldB>>, batchSize |-> batchSize, cooldown |-> cooldown]

\* configurations: a single column S, then a group (A, B) whose prompt reads S;
\* batch size 0 and cooldown 0 stand for a value the YAML leaves out
BatchAndCooldown == {<<0, 0>>, <<1, 200>>, <<2, 200>>, <<2, 0>>}

OutputCsv == <<"o", ".", "C", "s", "v">>
OutputOther == <<"o">>

\* configurations with a required field left out.  At the top level a columns
\* of Absent is a columns key left out (an empty list is not among the inputs)
InvalidConfigs ==
  {[inputFileName |-> Absent, outputFileName |-> OutputCsv,
    columns |-> <<SingleColumn(2, 0)>>],
   [inputFileName |-> <<"i">>, outputFileName |-> Absent,
    columns |-> <<SingleColumn(2, 0)>>],
   [inputFileName |-> <<"i">>, outputFileName |-> OutputCsv, columns |-> Absent]}
  \cup
  {[inputFileName |-> <<"i">>, outputFileName |-> OutputCsv,
    columns |-> <<[SingleColumn(2, 0) EXCEPT ![f] = Absent]>>] :
     f \in {"name", "modelName"}}
  \cup
  {[inputFileName |-> <<"i">>, outputFileName |-> OutputCsv,
    columns |-> <<SingleColumn(2, 0), [GroupColumn(2, 0) EXCEPT ![f] = Absent]>>] :
     f \in {"name", "modelName", "prompt", "columns"}}

Configs ==
  {[inputFileName |-> <<"i">>, outputFileName |-> OutputCsv,
    columns |-> <<SingleColumn(bc[1], bc[2]), GroupColumn(bc[1], bc[2])>>] :
     bc \in BatchAndCooldown}
  \cup
  {[inputFileName |-> <<"i">>, outputFileName |-> OutputOther,
    columns |-> <<SingleColumn(2, 200), GroupColumn(2, 200)>>]}
  \cup
  {[inputFileName |-> <<"i">>, outputFileName |-> OutputCsv,
    columns |-> <<[SingleColumn(1, 0) EXCEPT !.prompt = Absent]>>]}
  \cup InvalidConfigs

\* replies of the model API
Usage0 == [hasUsage |-> FALSE, cost |-> 0, prompt_tokens |-> 0, completion_tokens |-> 0]
Usage1 == [hasUsage |-> TRUE, cost |-> 3, prompt_tokens |-> 2, completion_tokens |-> 1]
Usage2 == [hasUsage |-> TRUE, cost |-> 5, prompt_tokens |-> 4, completion_tokens |-> 2]
Reply(content, u) ==
  [content |-> content, hasUsage |-> u.hasUsage, cost |-> u.cost,
   prompt_tokens |-> u.prompt_tokens, completion_tokens |-> u.completion_tokens]

\* {"A":"x","B":"y"}, a fenced {"A":"x"} and a text that is no JSON
TextAB == <<"{", Q, "A", Q, ":", Q, "x", Q, ",", Q, "B", Q, ":", Q, "y", Q, "}">>
TextFencedA ==
  Fence \o <<"j", "s", "o", "n", "\n", "{", Q, "A", Q, ":", Q, "x", Q, "}", "\n">> \o Fence
TextNoJson == <<"S", "o", "r", "r", "y">>

\* what the model may answer to a prompt: for the single column the prompt
\* itself, in whitespace; for the group a JSON object or a text that is none
SingleReplies(prompt) == {Reply(<<" ">> \o prompt \o <<"\n">>, Usage1)}
GroupReplies == {Reply(TextAB, Usage0), Reply(TextNoJson, Usage2)}

RepliesFor(info, prompt) == IF info.isGroup THEN GroupReplies ELSE SingleReplies(prompt)

\* errors a model call fails with: [status, message]
Errors == {[status |-> "429", message |-> "rate limited"],
           [status |-> "N/A", message |-> "timeout"]}

\* a model whose calls fail in more ways: each status with each message
FlakyModel == <<"x">>
FlakyErrors ==
  {[status |-> st, message |-> msg] :
     st \in {"429", "N/A"}, msg \in {"rate limited", "timeout"}}

ErrorsOf(modelName) == IF modelName = FlakyModel THEN FlakyErrors ELSE Errors

(***************************************************************************)
(* State                                                                   *)
(***************************************************************************)
VARIABLES
  pc,             \* where the run is: the await it is suspended at, or a loop head
  config,         \* the configuration (validation fills in its defaults)
  rows,           \* the row set, mutated in place
  col,            \* main: index of the column being processed
  grand,          \* main: grandTotalCost, grandTotalPromptTokens, ...
  i,              \* processColumn: start index of the current batch
  batchEnd,       \* processColumn: end index (exclusive) of the current batch
  processedCount, \* processColumn: outcomes aggregated so far
  total,          \* processColumn: totalCost, totalPromptTokens, ...
  rowsToProcess,  \* processBatch: row indices still to process
  allResults,     \* processBatch: outcomes of the rows that succeeded
  retryCount,     \* processBatch: retry rounds counted so far
  batchPromises,  \* processBatch: the tasks of the round in flight
  sleeping,       \* milliseconds of the sleep() the run is suspended in, or 0
  progressFile,   \* content of the .progress file
  outputFile,     \* content of the output CSV
  thrown,         \* the error processBatch threw, and what it logged
  attempts,       \* per row index: model invocations issued in the current batch
  failures,       \* per row index: model invocations that failed in the current batch
  lastFailed,     \* the row indices whose task failed in the last settled round
  backoffs,       \* the backoff delays (ms) slept in the current batch
  errorSummary,   \* processBatch: the errorSummary of the round that failed last
  ckptAttempts,   \* checkpoint writes attempted in the current column
  lastCkpt,       \* how the latest checkpoint write ended: "none", "written", "failed"
  finalWrites,    \* writes of the output CSV made by main
  batchLog,       \* the ranges <<i, batchEnd>> of the batches started in the column
  spent,          \* per row index: the model invocations that succeeded in the
                  \* column, and the sum of their figures
  columnTotals,   \* the columnStats returned by processColumn so far
  doneRows,       \* the row set as it stood when the latest batch returned
  pauses,         \* cooldown pauses started in the current column
  roundRows,      \* the row set as it stood when the round in flight started
  orphans         \* whole-batch retry: the tasks of rounds given up that are
                  \* still in flight (a bag of promises)

vars == <<pc, config, rows, col, grand, i, batchEnd, processedCount, total,
          rowsToProcess, allResults, retryCount, batchPromises, sleeping,
          progressFile, outputFile, thrown, attempts, failures, lastFailed,
          backoffs, ckptAttempts, lastCkpt, finalWrites, batchLog, spent,
          columnTotals, doneRows, errorSummary, pauses, roundRows, orphans>>

mainVars == <<col, grand>>
columnVars == <<i, batchEnd, processedCount, total, ckptAttempts>>
batchVars == <<rowsToProcess, allResults, retryCount, batchPromises, attempts, failures,
               lastFailed, backoffs, errorSummary, orphans>>
fileVars == <<progressFile, outputFile>>
histVars == <<lastCkpt, finalWrites, batchLog, spent, columnTotals, doneRows, pauses,
              roundRows>>

NoFile == [header |-> <<>>, records |-> <<>>, written |-> FALSE]
\* a file created or emptied by a write that then failed
EmptyFile == [header |-> <<>>, records |-> <<>>, written |-> TRUE]
NoError == [status |-> "", message |-> ""]
NoReply == Reply(<<>>, Usage0)
NoOutcome ==
  [success |-> FALSE, cost |-> 0, promptTokens |-> 0, completionTokens |-> 0,
   rowIndex |-> -1]
NotThrown == [isThrown |-> FALSE, count |-> 0, failedRows |-> <<>>]
ZeroStats == [cost |-> 0, promptTokens |-> 0, completionTokens |-> 0]
NothingSpent == [count |-> 0, cost |-> 0, promptTokens |-> 0, completionTokens |-> 0]

totalRows == Len(rows)
totalColumns == Len(config.columns)
columnConfig == config.columns[col + 1]

\* processColumn's columnInfo: a single column's name, or a group's columns
ColumnInfoOf(cc) ==
  [isGroup |-> cc.group, name |-> IF cc.group THEN Absent ELSE cc.name,
   columns |-> IF cc.group THEN cc.columns ELSE Absent]

columnInfo == ColumnInfoOf(columnConfig)

\* the fields a column writes
TargetFields(cc) == IF cc.group THEN cc.columns ELSE <<cc.name>>

(***************************************************************************)
(* main: validation of the configuration and loading of the rows           *)
(***************************************************************************)
\* a validation that asks for a name only
ValidColumnNameOnly(cc) == cc.name # Absent

\* the checks of one entry of config.columns: a group's, or a single column's
ValidColumn(cc) ==
  IF cc.group
  THEN cc.name # Absent /\ cc.modelName # Absent /\ cc.prompt # Absent
       /\ cc.columns # Absent
  ELSE cc.name # Absent /\ cc.modelName # Absent /\ cc.prompt # Absent

ValidConfig(c) ==
  /\ c.inputFileName # Absent
  /\ c.outputFileName # Absent
  /\ c.columns # Absent
  /\ \A n \in 1..Len(c.columns) : ValidColumn(c.columns[n])

\* batchSize || 10 and cooldown || 0
WithDefaults(cc) ==
  [cc EXCEPT !.batchSize = IF cc.batchSize = 0 THEN DefaultBatchSize ELSE cc.batchSize,
             !.cooldown = IF cc.cooldown = 0 THEN DefaultCooldown ELSE cc.cooldown]

Init ==
  /\ pc = "start"
  /\ config \in Configs
  /\ rows = <<>>
  /\ col = 0
  /\ grand = ZeroStats
  /\ i = 0
  /\ batchEnd = 0
  /\ processedCount = 0
  /\ total = ZeroStats
  /\ rowsToProcess = <<>>
  /\ allResults = <<>>
  /\ retryCount = 0
  /\ batchPromises = <<>>
  /\ sleeping = 0
  /\ progressFile = NoFile
  /\ outputFile = NoFile
  /\ thrown = NotThrown
  /\ attempts = <<>>
  /\ failures = <<>>
  /\ lastFailed = {}
  /\ backoffs = <<>>
  /\ ckptAttempts = 0
  /\ lastCkpt = "none"
  /\ finalWrites = 0
  /\ batchLog = <<>>
  /\ spent = <<>>
  /\ columnTotals = <<>>
  /\ doneRows = <<>>
  /\ errorSummary = <<>>
  /\ pauses = 0
  /\ roundRows = <<>>
  /\ orphans = EmptyBag

\* an invalid configuration, or an empty input: process.exit(1)
RejectConfig ==
  /\ pc = "start"
  /\ ~ValidConfig(config) \/ Len(readCSV(InputFileAt(config.inputFileName))) = 0
  /\ pc' = "exit"
  /\ UNCHANGED <<config, rows, mainVars, columnVars, batchVars, sleeping, fileVars, thrown, histVars>>

\* a valid configuration: defaults filled in, rows read
LoadRun ==
  /\ pc = "start"
  /\ ValidConfig(config)
  /\ Len(readCSV(InputFileAt(config.inputFileName))) > 0
  /\ config' = [config EXCEPT !.columns =
                  [n \in 1..Len(config.columns) |-> WithDefaults(config.columns[n])]]
  /\ rows' = readCSV(InputFileAt(config.inputFileName))
  /\ pc' = "main"
  /\ UNCHANGED <<mainVars, columnVars, batchVars, sleeping, fileVars, thrown, histVars>>

\* a write that appends its records to those the progress file holds
CsvFileAppended(data, headers) ==
  [header |-> headers,
   records |-> progressFile.records \o
                 [n \in 1..Len(data) |->
                    [h \in 1..Len(headers) |->
                       IF HasKey(data[n], headers[h]) THEN ToStr(Get(data[n], headers[h]))
                       ELSE <<>>]],
   written |-> TRUE]

(***************************************************************************)
(* writeCSV: the header line and one record per row, each holding the      *)
(* row's value of every header (empty where the row has none)              *)
(***************************************************************************)
CsvFile(data, headers) ==
  [header |-> headers,
   records |-> [n \in 1..Len(data) |->
                  [h \in 1..Len(headers) |->
                     IF HasKey(data[n], headers[h]) THEN ToStr(Get(data[n], headers[h]))
                     ELSE <<>>]],
   written |-> TRUE]

(***************************************************************************)
(* main: the loop over the columns and the final write                     *)
(***************************************************************************)
\* for (i < totalColumns): processColumn starts
EnterColumn ==
  /\ pc = "main"
  /\ col < totalColumns
  /\ i' = 0
  /\ batchEnd' = 0
  /\ processedCount' = 0
  /\ total' = ZeroStats
  /\ ckptAttempts' = 0
  /\ batchLog' = <<>>
  /\ spent' = [j \in 0..(totalRows - 1) |-> NothingSpent]
  /\ pauses' = 0
  /\ pc' = "batch_loop"
  /\ UNCHANGED <<config, rows, mainVars, batchVars, sleeping, fileVars, thrown,
                 lastCkpt, finalWrites, columnTotals,
                 doneRows, roundRows>>

\* after the last column: await writeCSV(config.outputFileName, ...)
StartFinalWrite ==
  /\ pc = "main"
  /\ col >= totalColumns
  /\ pc' = "final_write"
  /\ UNCHANGED <<config, rows, mainVars, columnVars, batchVars, sleeping, fileVars, thrown, histVars>>

\* a write under the headers the input had
FinalWriteDoneOriginalHeaders ==
  /\ pc = "final_write"
  /\ outputFile' = CsvFile(rows, ObjectKeys(InputRows[1]))
  /\ finalWrites' = finalWrites + 1
  /\ pc' = "done"
  /\ UNCHANGED <<config, rows, mainVars, columnVars, batchVars, sleeping, progressFile,
                 thrown, lastCkpt, batchLog, spent, columnTotals,
                 doneRows, pauses, roundRows>>

\* await writeCSV(config.outputFileName, rows, allHeaders) is over
FinalWriteDone ==
  /\ pc = "final_write"
  /\ outputFile' = CsvFile(rows, ObjectKeys(RowAt(rows, 0)))
  /\ finalWrites' = finalWrites + 1
  /\ pc' = "done"
  /\ UNCHANGED <<config, rows, mainVars, columnVars, batchVars, sleeping, progressFile,
                 thrown, lastCkpt, batchLog, spent, columnTotals,
                 doneRows, pauses, roundRows>>

\* the write fails, leaving the file as it was or empty: main's catch,
\* process.exit(1)
FinalWriteFail ==
  /\ pc = "final_write"
  /\ outputFile' \in {outputFile, EmptyFile}
  /\ pc' = "exit"
  /\ UNCHANGED <<config, rows, mainVars, columnVars, batchVars, sleeping, progressFile,
                 thrown, histVars>>

(***************************************************************************)
(* processColumn: the loop over the batches                                *)
(***************************************************************************)
batchSize == columnConfig.batchSize
cooldown == columnConfig.cooldown

\* the indices batchStart .. batchEnd-1, in order
IndexRange(batchStart, end) == [n \in 1..(end - batchStart) |-> batchStart + n - 1]

\* a loop that stops one row short
BatchLoopContinuesShort(start, n) == start + 1 < n

\* for (let i = 0; i < totalRows; i += batchSize)
BatchLoopContinues(start, n) == start < n

\* an end that leaves the last row out
BatchEndOfShort(start, size, n) == Min(start + size, n - 1)

\* Math.min(i + batchSize, totalRows)
BatchEndOf(start, size, n) == Min(start + size, n)

\* the loop goes on: processBatch(rows, i, batchEnd, ...) starts
StartBatch ==
  /\ pc = "batch_loop"
  /\ BatchLoopContinues(i, totalRows)
  /\ i >= -MaxIdleBatches
  /\ batchEnd' = BatchEndOf(i, batchSize, totalRows)
  /\ rowsToProcess' = IndexRange(i, batchEnd')
  /\ allResults' = <<>>
  /\ retryCount' = 0
  /\ batchPromises' = <<>>
  /\ attempts' = [j \in i..(batchEnd' - 1) |-> 0]
  /\ failures' = [j \in i..(batchEnd' - 1) |-> 0]
  /\ lastFailed' = {}
  /\ backoffs' = <<>>
  /\ batchLog' = Append(batchLog, <<i, batchEnd'>>)
  /\ pc' = "while"
  /\ UNCHANGED <<config, rows, mainVars, i, processedCount, total, ckptAttempts,
                 sleeping, fileVars, thrown, lastCkpt, finalWrites, spent, columnTotals,
                 doneRows, pauses, errorSummary, roundRows, orphans>>

\* the loop is over: processColumn returns its totals, main adds them up
ColumnReturn ==
  /\ pc = "batch_loop"
  /\ ~BatchLoopContinues(i, totalRows)
  /\ grand' = [cost |-> grand.cost + total.cost,
               promptTokens |-> grand.promptTokens + total.promptTokens,
               completionTokens |-> grand.completionTokens + total.completionTokens]
  /\ col' = col + 1
  /\ columnTotals' = Append(columnTotals, total)
  /\ pc' = "main"
  /\ UNCHANGED <<config, rows, columnVars, batchVars, sleeping, fileVars, thrown,
                 lastCkpt, finalWrites, batchLog, spent,
                 doneRows, pauses, roundRows>>

RECURSIVE SumOf(_, _)
SumOf(results, field) ==
  IF results = <<>> THEN 0
  ELSE results[1][field] + SumOf(Tail(results), field)

\* totals that are set to the sums of the batch instead of growing by them
AggregateOverwrites(t, batchResults) ==
  [cost |-> SumOf(batchResults, "cost"),
   promptTokens |-> SumOf(batchResults, "promptTokens"),
   completionTokens |-> SumOf(batchResults, "completionTokens")]

\* the totals after "for (const result of batchResults)"
Aggregate(t, batchResults) ==
  [cost |-> t.cost + SumOf(batchResults, "cost"),
   promptTokens |-> t.promptTokens + SumOf(batchResults, "promptTokens"),
   completionTokens |-> t.completionTokens + SumOf(batchResults, "completionTokens")]

\* config.outputFileName.replace(/\.csv$/i, '.progress')
EndsWithCsv(name) ==
  /\ Len(name) >= 4
  /\ name[Len(name) - 3] = "."
  /\ name[Len(name) - 2] \in {"c", "C"}
  /\ name[Len(name) - 1] \in {"s", "S"}
  /\ name[Len(name)] \in {"v", "V"}

ProgressFilePathOf(name) ==
  IF EndsWithCsv(name)
  THEN SubSeq(name, 1, Len(name) - 4) \o <<".", "p", "r", "o", "g", "r", "e", "s", "s">>
  ELSE name

progressFilePath == ProgressFilePathOf(config.outputFileName)

\* the file at progressFilePath: the output file itself when the output name
\* does not end in .csv
CheckpointFile ==
  IF progressFilePath = config.outputFileName THEN outputFile ELSE progressFile

\* the file at progressFilePath becomes content
CheckpointFileBecomes(content) ==
  IF progressFilePath = config.outputFileName
  THEN outputFile' = content /\ UNCHANGED progressFile
  ELSE progressFile' = content /\ UNCHANGED outputFile

\* a cooldown slept after the last batch too
AfterCheckpointAlways ==
  IF cooldown > 0
  THEN sleeping' = cooldown /\ pc' = "cooldown" /\ i' = i /\ pauses' = pauses + 1
  ELSE sleeping' = 0 /\ pc' = "batch_loop" /\ i' = i + batchSize /\ pauses' = pauses

\* after the try/catch around the write: sleep(cooldown) between two batches,
\* else the loop's i += batchSize
AfterCheckpoint ==
  IF batchEnd < totalRows /\ cooldown > 0
  THEN sleeping' = cooldown /\ pc' = "cooldown" /\ i' = i /\ pauses' = pauses + 1
  ELSE sleeping' = 0 /\ pc' = "batch_loop" /\ i' = i + batchSize /\ pauses' = pauses

\* a checkpoint written under the headers the input had
CheckpointWrittenOriginalHeaders ==
  /\ pc = "checkpoint"
  /\ CheckpointFileBecomes(
       CsvFile(rows, ObjectKeys(RowAt(readCSV(InputFileAt(config.inputFileName)), 0))))
  /\ ckptAttempts' = ckptAttempts + 1
  /\ lastCkpt' = "written"
  /\ AfterCheckpoint
  /\ UNCHANGED <<config, rows, mainVars, batchEnd, processedCount, total, batchVars,
                 thrown, finalWrites, batchLog, spent, columnTotals,
                 doneRows, roundRows>>

\* the progress file is written (progressFilePath is never empty)
CheckpointWritten ==
  /\ pc = "checkpoint"
  /\ CheckpointFileBecomes(CsvFile(rows, ObjectKeys(RowAt(rows, 0))))
  /\ ckptAttempts' = ckptAttempts + 1
  /\ lastCkpt' = "written"
  /\ AfterCheckpoint
  /\ UNCHANGED <<config, rows, mainVars, batchEnd, processedCount, total, batchVars,
                 thrown, finalWrites, batchLog, spent, columnTotals,
                 doneRows, roundRows>>

\* a failed write that ends the run
CheckpointFailedFatal ==
  /\ pc = "checkpoint"
  /\ ckptAttempts' = ckptAttempts + 1
  /\ lastCkpt' = "failed"
  /\ pc' = "exit"
  /\ UNCHANGED <<config, rows, mainVars, i, batchEnd, processedCount, total, batchVars,
                 sleeping, fileVars, thrown, finalWrites, batchLog, spent, columnTotals,
                 doneRows, pauses, roundRows>>

\* the write fails, leaving the file as it was or empty: logged, the run goes on
CheckpointFailed ==
  /\ pc = "checkpoint"
  /\ \E residue \in {CheckpointFile, EmptyFile} : CheckpointFileBecomes(residue)
  /\ ckptAttempts' = ckptAttempts + 1
  /\ lastCkpt' = "failed"
  /\ AfterCheckpoint
  /\ UNCHANGED <<config, rows, mainVars, batchEnd, processedCount, total, batchVars,
                 thrown, finalWrites, batchLog, spent, columnTotals,
                 doneRows, roundRows>>

\* sleep(cooldown) is over: i += batchSize
CooldownDone ==
  /\ pc = "cooldown"
  /\ sleeping' = 0
  /\ i' = i + batchSize
  /\ pc' = "batch_loop"
  /\ UNCHANGED <<config, rows, mainVars, batchEnd, processedCount, total, ckptAttempts,
                 batchVars, fileVars, thrown, histVars>>

(***************************************************************************)
(* processBatch: the retry loop                                            *)
(***************************************************************************)
\* while (rowsToProcess.length > 0 && retryCount <= maxRetries)
WhileCondition(toProcess, retries) == Len(toProcess) > 0 /\ retries <= maxRetries

\* the promise processRow(...).then(...).catch(...) of one row, just created:
\* the prompt is filled from the row and the model call issued
NewPromise(rowIndex) ==
  [rowIndex |-> rowIndex,
   state |-> "pending",
   prompt |-> fillPromptTemplate(columnConfig.prompt, RowAt(rows, rowIndex)),
   reply |-> NoReply,
   result |-> NoOutcome,
   error |-> NoError]

\* how many times index j occurs in the sequence q
Occurrences(q, j) == Cardinality({n \in 1..Len(q) : q[n] = j})

\* a round starts: one task per row index still to process
LaunchRound ==
  /\ pc = "while"
  /\ WhileCondition(rowsToProcess, retryCount)
  /\ batchPromises' = [n \in 1..Len(rowsToProcess) |-> NewPromise(rowsToProcess[n])]
  /\ attempts' = [j \in DOMAIN attempts |-> attempts[j] + Occurrences(rowsToProcess, j)]
  /\ roundRows' = rows
  /\ pc' = "await_all"
  /\ UNCHANGED <<config, rows, mainVars, columnVars, rowsToProcess, allResults,
                 retryCount, failures, lastFailed, backoffs, sleeping, fileVars, thrown, lastCkpt, finalWrites, batchLog, spent, columnTotals, doneRows, pauses, errorSummary, orphans>>

\* the loop is over: processBatch returns allResults, processColumn aggregates
\* them and starts writing the progress file
BatchReturn ==
  /\ pc = "while"
  /\ ~WhileCondition(rowsToProcess, retryCount)
  /\ processedCount' = processedCount + Len(allResults)
  /\ total' = Aggregate(total, allResults)
  /\ doneRows' = rows
  /\ pc' = "checkpoint"
  /\ UNCHANGED <<config, rows, mainVars, i, batchEnd, ckptAttempts, batchVars,
                 sleeping, fileVars, thrown, lastCkpt, finalWrites, batchLog, spent,
                 columnTotals, pauses, roundRows>>

\* a task that stores its result in the first row of the batch as well
TaskFulfilledSharedRow(n, reply) ==
  LET p == batchPromises[n]
      apiResult == apiResultOf(reply)
      own == [rows EXCEPT ![p.rowIndex + 1] =
                StoreResult(rows[p.rowIndex + 1], columnInfo, apiResult.result)]
  IN /\ rows' = [own EXCEPT ![i + 1] = StoreResult(own[i + 1], columnInfo, apiResult.result)]
     /\ batchPromises' = [batchPromises EXCEPT ![n] =
                   [p EXCEPT !.state = ProcessRowEnds(columnInfo, apiResult.result),
                             !.reply = reply,
                             !.result = RowOutcome(apiResult, p.rowIndex)]]
     /\ spent' = [spent EXCEPT ![p.rowIndex] =
                   [count |-> @.count + 1,
                    cost |-> @.cost + apiResult.cost,
                    promptTokens |-> @.promptTokens + apiResult.promptTokens,
                    completionTokens |-> @.completionTokens + apiResult.completionTokens]]

\* the model call of task n returns: processRow stores the result in the row
TaskFulfilled(n, reply) ==
  LET p == batchPromises[n]
      apiResult == apiResultOf(reply)
  IN /\ rows' = [rows EXCEPT ![p.rowIndex + 1] =
                   StoreResult(rows[p.rowIndex + 1], columnInfo, apiResult.result)]
     /\ batchPromises' = [batchPromises EXCEPT ![n] =
                   [p EXCEPT !.state = ProcessRowEnds(columnInfo, apiResult.result),
                             !.reply = reply,
                             !.result = RowOutcome(apiResult, p.rowIndex)]]
     /\ spent' = [spent EXCEPT ![p.rowIndex] =
                   [count |-> @.count + 1,
                    cost |-> @.cost + apiResult.cost,
                    promptTokens |-> @.promptTokens + apiResult.promptTokens,
                    completionTokens |-> @.completionTokens + apiResult.completionTokens]]

TaskSucceeds ==
  /\ pc = "await_all"
  /\ \E n \in 1..Len(batchPromises) :
       /\ batchPromises[n].state = "pending"
       /\ failures[batchPromises[n].rowIndex] <= MaxTransientFailures
       /\ \E reply \in RepliesFor(columnInfo, batchPromises[n].prompt) :
            TaskFulfilled(n, reply)
  /\ UNCHANGED <<pc, config, mainVars, columnVars, rowsToProcess, allResults,
                 retryCount, attempts, failures, lastFailed, backoffs, sleeping,
                 fileVars, thrown, lastCkpt, finalWrites, batchLog, columnTotals,
                 doneRows, pauses, errorSummary, roundRows, orphans>>

\* a failure that leaves a mark in the target fields of its row
TaskFailsMarksRow ==
  /\ pc = "await_all"
  /\ \E n \in 1..Len(batchPromises) :
       /\ batchPromises[n].state = "pending"
       /\ \E e \in ErrorsOf(columnConfig.modelName) :
            batchPromises' = [batchPromises EXCEPT ![n] =
                   [batchPromises[n] EXCEPT !.state = "rejected", !.error = e]]
       /\ failures' = [failures EXCEPT ![batchPromises[n].rowIndex] = @ + 1]
       /\ rows' = [rows EXCEPT ![batchPromises[n].rowIndex + 1] =
                     StoreResult(@, columnInfo, <<"E", "R", "R">>)]
  /\ UNCHANGED <<pc, config, mainVars, columnVars, rowsToProcess, allResults,
                 retryCount, attempts, lastFailed, backoffs, sleeping, fileVars, thrown,
                 histVars, errorSummary, orphans>>

\* the model call of task n throws: .catch turns it into a failure record
TaskFails ==
  /\ pc = "await_all"
  /\ \E n \in 1..Len(batchPromises) :
       /\ batchPromises[n].state = "pending"
       /\ \E e \in ErrorsOf(columnConfig.modelName) :
            batchPromises' = [batchPromises EXCEPT ![n] =
                   [batchPromises[n] EXCEPT !.state = "rejected", !.error = e]]
       /\ failures' = [failures EXCEPT ![batchPromises[n].rowIndex] = @ + 1]
  /\ UNCHANGED <<pc, config, rows, mainVars, columnVars, rowsToProcess, allResults,
                 retryCount, attempts, lastFailed, backoffs, sleeping, fileVars, thrown, histVars, errorSummary, orphans>>

\* a wait that ends with the first task to settle
FirstSettled == \E n \in 1..Len(batchPromises) : batchPromises[n].state # "pending"

\* Promise.all(batchPromises) has resolved
AllSettled == \A n \in 1..Len(batchPromises) : batchPromises[n].state # "pending"

IsFulfilled(p) == p.state = "fulfilled"
IsRejected(p) == p.state = "rejected"

\* allResults after the results of the round are pushed
PushResults(results, promises) ==
  LET succeeded == SelectSeq(promises, IsFulfilled)
  IN results \o [n \in 1..Len(succeeded) |-> succeeded[n].result]

\* a retry of the whole round instead of its failed rows
FailedRowsWholeRound(promises) ==
  IF \E n \in 1..Len(promises) : promises[n].state = "rejected"
  THEN [n \in 1..Len(promises) |-> promises[n].rowIndex]
  ELSE <<>>

\* rowsToProcess = failed.map(f => f.rowIndex)
FailedRows(promises) ==
  LET failed == SelectSeq(promises, IsRejected)
  IN [n \in 1..Len(failed) |-> failed[n].rowIndex]

\* the row indices of the rejected promises of a round
RejectedRows(promises) ==
  {promises[n].rowIndex : n \in {m \in 1..Len(promises) : promises[m].state = "rejected"}}

\* a key that leaves the message out
ErrorKeyStatusOnly(error) == <<error.status>>

\* `${statusCode}: ${errorMsg}`
ErrorKey(error) == <<error.status, ": ", error.message>>

\* errorSummary[key].push(failure.rowIndex + 1), under a new key if there is
\* none yet: the entries [key, rows] in the order the keys were first seen
AddToSummary(summary, key, rowNumber) ==
  IF \E n \in 1..Len(summary) : summary[n].key = key
  THEN [n \in 1..Len(summary) |->
          IF summary[n].key = key
          THEN [summary[n] EXCEPT !.rows = Append(@, rowNumber)]
          ELSE summary[n]]
  ELSE Append(summary, [key |-> key, rows |-> <<rowNumber>>])

\* for (const failure of failed)
RECURSIVE SummaryUpTo(_, _)
SummaryUpTo(failed, n) ==
  IF n = 0 THEN <<>>
  ELSE AddToSummary(SummaryUpTo(failed, n - 1),
                    ErrorKey(failed[n].error), failed[n].rowIndex + 1)

ErrorSummaryOf(failed) == SummaryUpTo(failed, Len(failed))

\* an error that names every row of the batch
ErrorOfWholeBatch(toProcess) ==
  [isThrown |-> TRUE,
   count |-> batchEnd - i,
   failedRows |-> [n \in 1..(batchEnd - i) |-> i + n]]

\* the error thrown and the failed rows logged with it (as row numbers, i + 1)
ErrorOf(toProcess) ==
  [isThrown |-> TRUE,
   count |-> Len(toProcess),
   failedRows |-> [n \in 1..Len(toProcess) |-> toProcess[n] + 1]]

\* a ceiling reached one round early
CeilingExceededEarly(retries) == retries >= maxRetries

\* a ceiling that never throws: the loop ends and returns what it has
CeilingExceededNever(retries) == FALSE

\* if (retryCount > maxRetries) throw
CeilingExceeded(retries) == retries > maxRetries

\* a backoff that grows linearly
BackoffMsLinear(retries) == 2 * retries * 1000

\* Math.pow(2, retryCount) * 1000
BackoffMs(retries) == Pow2(retries) * 1000

\* every row of the round succeeded: back to the loop head
SettleSucceeded ==
  /\ pc = "await_all"
  /\ AllSettled
  /\ FailedRows(batchPromises) = <<>>
  /\ allResults' = PushResults(allResults, batchPromises)
  /\ rowsToProcess' = FailedRows(batchPromises)
  /\ lastFailed' = RejectedRows(batchPromises)
  /\ batchPromises' = <<>>
  /\ roundRows' = <<>>
  /\ pc' = "while"
  /\ UNCHANGED <<config, rows, mainVars, columnVars, retryCount, attempts, failures,
                 backoffs, sleeping, fileVars, thrown, lastCkpt, finalWrites, batchLog, spent, columnTotals, doneRows, pauses, errorSummary, orphans>>

\* some rows failed and the ceiling is not exceeded: sleep(backoffMs)
SettleRetry ==
  /\ pc = "await_all"
  /\ AllSettled
  /\ FailedRows(batchPromises) # <<>>
  /\ ~CeilingExceeded(retryCount + 1)
  /\ allResults' = PushResults(allResults, batchPromises)
  /\ rowsToProcess' = FailedRows(batchPromises)
  /\ lastFailed' = RejectedRows(batchPromises)
  /\ retryCount' = retryCount + 1
  /\ errorSummary' = ErrorSummaryOf(SelectSeq(batchPromises, IsRejected))
  /\ batchPromises' = <<>>
  /\ roundRows' = <<>>
  /\ sleeping' = BackoffMs(retryCount')
  /\ backoffs' = Append(backoffs, sleeping')
  /\ pc' = "backoff"
  /\ UNCHANGED <<config, rows, mainVars, columnVars, attempts, failures, fileVars,
                 thrown, lastCkpt, finalWrites, batchLog, spent, columnTotals, doneRows, pauses, orphans>>

\* a failure that cleans up: the progress file is removed and the totals reset
SettleThrowDiscards ==
  /\ pc = "await_all"
  /\ AllSettled
  /\ FailedRows(batchPromises) # <<>>
  /\ CeilingExceeded(retryCount + 1)
  /\ allResults' = PushResults(allResults, batchPromises)
  /\ rowsToProcess' = FailedRows(batchPromises)
  /\ lastFailed' = RejectedRows(batchPromises)
  /\ retryCount' = retryCount + 1
  /\ errorSummary' = ErrorSummaryOf(SelectSeq(batchPromises, IsRejected))
  /\ batchPromises' = <<>>
  /\ roundRows' = <<>>
  /\ thrown' = ErrorOf(rowsToProcess')
  /\ CheckpointFileBecomes(NoFile)
  /\ total' = ZeroStats
  /\ pc' = "exit"
  /\ UNCHANGED <<config, rows, mainVars, i, batchEnd, processedCount, ckptAttempts,
                 attempts, failures, backoffs, sleeping, lastCkpt, finalWrites, batchLog, spent, columnTotals, doneRows, pauses, orphans>>

\* an error that is logged and swallowed: the loop ends as if the batch was done
SettleThrowSwallowed ==
  /\ pc = "await_all"
  /\ AllSettled
  /\ FailedRows(batchPromises) # <<>>
  /\ CeilingExceeded(retryCount + 1)
  /\ allResults' = PushResults(allResults, batchPromises)
  /\ rowsToProcess' = FailedRows(batchPromises)
  /\ lastFailed' = RejectedRows(batchPromises)
  /\ retryCount' = retryCount + 1
  /\ errorSummary' = ErrorSummaryOf(SelectSeq(batchPromises, IsRejected))
  /\ batchPromises' = <<>>
  /\ roundRows' = <<>>
  /\ thrown' = ErrorOf(rowsToProcess')
  /\ pc' = "while"
  /\ UNCHANGED <<config, rows, mainVars, columnVars, attempts, failures, backoffs,
                 sleeping, fileVars, lastCkpt, finalWrites, batchLog, spent, columnTotals, doneRows, pauses, orphans>>

\* some rows failed and the ceiling is exceeded: the error is logged and thrown;
\* nothing catches it before main's catch, which ends the process
SettleThrow ==
  /\ pc = "await_all"
  /\ AllSettled
  /\ FailedRows(batchPromises) # <<>>
  /\ CeilingExceeded(retryCount + 1)
  /\ allResults' = PushResults(allResults, batchPromises)
  /\ rowsToProcess' = FailedRows(batchPromises)
  /\ lastFailed' = RejectedRows(batchPromises)
  /\ retryCount' = retryCount + 1
  /\ errorSummary' = ErrorSummaryOf(SelectSeq(batchPromises, IsRejected))
  /\ batchPromises' = <<>>
  /\ roundRows' = <<>>
  /\ thrown' = ErrorOf(rowsToProcess')
  /\ pc' = "exit"
  /\ UNCHANGED <<config, rows, mainVars, columnVars, attempts, failures, backoffs,
                 sleeping, fileVars, lastCkpt, finalWrites, batchLog, spent, columnTotals, doneRows, pauses, orphans>>

\* sleep(backoffMs) is over: the iteration ends, and its errorSummary with it;
\* back to the loop head
BackoffDone ==
  /\ pc = "backoff"
  /\ sleeping' = 0
  /\ errorSummary' = <<>>
  /\ pc' = "while"
  /\ UNCHANGED <<config, rows, mainVars, columnVars, rowsToProcess, allResults,
                 retryCount, batchPromises, attempts, failures, lastFailed, backoffs,
                 fileVars, thrown, histVars, orphans>>

(***************************************************************************)
(* The run                                                                 *)
(***************************************************************************)
Next ==
  \/ RejectConfig
  \/ LoadRun
  \/ EnterColumn
  \/ StartFinalWrite
  \/ FinalWriteDone
  \/ FinalWriteFail
  \/ StartBatch
  \/ ColumnReturn
  \/ CheckpointWritten
  \/ CheckpointFailed
  \/ CooldownDone
  \/ LaunchRound
  \/ BatchReturn
  \/ TaskSucceeds
  \/ TaskFails
  \/ SettleSucceeded
  \/ SettleRetry
  \/ SettleThrow
  \/ BackoffDone

Spec == Init /\ [][Next]_vars

(***************************************************************************)
(* Properties of processBatch                                              *)
(***************************************************************************)
\* the row indices of the current batch
BatchRows == i..(batchEnd - 1)

\* a processBatch call is under way or has just ended
InBatch == pc \in {"while", "await_all", "backoff"}

\* processBatch has returned to processColumn, which awaits the checkpoint
BatchReturned == pc = "checkpoint"

SeqToSet(q) == {q[n] : n \in 1..Len(q)}
NoDuplicates(q) == Cardinality(SeqToSet(q)) = Len(q)

\* the rows of the tasks of the round in flight, and of the outcomes recorded
LaunchedRows == [n \in 1..Len(batchPromises) |-> batchPromises[n].rowIndex]
ResultRows == [n \in 1..Len(allResults) |-> allResults[n].rowIndex]

\* the rows that have succeeded in the current batch
SucceededRows ==
  SeqToSet(ResultRows)
    \cup {batchPromises[n].rowIndex :
            n \in {m \in 1..Len(batchPromises) : batchPromises[m].state = "fulfilled"}}

RECURSIVE SumOver(_, _)
SumOver(f, S) ==
  IF S = {} THEN 0
  ELSE LET x == CHOOSE y \in S : TRUE IN f[x] + SumOver(f, S \ {x})

\* C1: a retry round launches one task for each row that failed in the round
\* before it and for no other row, and a row that has succeeded in the batch
\* is never invoked again (all its invocations but the last one failed)
C1_SelectiveRetry ==
  /\ (pc = "await_all" /\ retryCount > 0) =>
        /\ SeqToSet(LaunchedRows) = lastFailed
        /\ NoDuplicates(LaunchedRows)
  /\ (InBatch \/ BatchReturned) =>
        \A j \in SucceededRows : attempts[j] = failures[j] + 1

\* a second retry round is in flight for one row while another row of the
\* batch succeeded in the first round
C1_Witness ==
  /\ pc = "await_all"
  /\ retryCount = 2
  /\ \E j \in SucceededRows : attempts[j] = 1
  /\ \E n \in 1..Len(batchPromises) : attempts[batchPromises[n].rowIndex] = 3

\* the rows of the batch that failed on their first attempt
FirstAttemptFailures == {j \in BatchRows : failures[j] >= 1}

\* C2: a batch of N rows of which exactly K fail on the first attempt and
\* succeed on their first retry returns N successful outcomes after N + K
\* model invocations, made in the first round (N) and one retry round (K)
C2_InvocationCount ==
  (BatchReturned /\ \A j \in BatchRows : failures[j] <= 1) =>
     LET N == batchEnd - i
         K == Cardinality(FirstAttemptFailures)
     IN /\ SumOver(attempts, BatchRows) = N + K
        /\ Len(allResults) = N
        /\ \A n \in 1..N : allResults[n].success
        /\ retryCount = (IF K > 0 THEN 1 ELSE 0)

\* a batch of 3 rows has returned after 2 of them failed once
C2_Witness ==
  /\ BatchReturned
  /\ batchEnd - i = 3
  /\ \A j \in BatchRows : failures[j] <= 1
  /\ Cardinality(FirstAttemptFailures) = 2

\* the rows of the batch that have failed on every attempt up to the ceiling
ExhaustedRows ==
  {j \in DOMAIN failures : failures[j] = maxRetries + 1}

C4_RetryCeiling ==
  /\ \A j \in DOMAIN attempts : attempts[j] <= maxRetries + 1
  /\ pc = "await_all" => retryCount <= maxRetries
  /\ thrown.isThrown =>
        /\ retryCount = maxRetries + 1
        /\ \A n \in SeqToSet(thrown.failedRows) :
              attempts[n - 1] = maxRetries + 1 /\ failures[n - 1] = maxRetries + 1
  /\ (InBatch /\ retryCount > maxRetries) => FALSE

\* a batch has failed with a row invoked maxRetries + 1 times
C4_Witness ==
  /\ thrown.isThrown
  /\ \E j \in DOMAIN attempts : attempts[j] = maxRetries + 1

\* C5: before retry round r the batch sleeps once, for 2^r seconds: the
\* delays of a batch are 2, 4, 8, ... seconds, one per failed round whatever
\* the number of failed rows, none before the first attempt and none after a
\* round without failures
C5_Backoff ==
  /\ (InBatch \/ BatchReturned \/ thrown.isThrown) =>
        /\ Len(backoffs) = (IF thrown.isThrown THEN maxRetries ELSE retryCount)
        /\ \A r \in 1..Len(backoffs) : backoffs[r] = (2 ^ r) * 1000
        /\ \A r \in 1..(Len(backoffs) - 1) : backoffs[r + 1] = 2 * backoffs[r]
  /\ pc = "backoff" =>
        /\ sleeping = (2 ^ retryCount) * 1000
        /\ rowsToProcess # <<>>
        /\ lastFailed # {}
  /\ (pc = "await_all" /\ retryCount = 0) => backoffs = <<>>
  /\ (pc \in {"while", "await_all"}) => sleeping = 0

\* the tenth backoff, 1024 seconds, is being slept with 2 rows still failing
C5_Witness ==
  /\ pc = "backoff"
  /\ Len(backoffs) = maxRetries
  /\ sleeping = 1024000
  /\ Len(rowsToProcess) = 2

\* C6: processBatch returns only when every row of the batch has succeeded,
\* with exactly one success outcome per row of the batch; a row never has
\* both a success outcome and a final failure
C6_CompleteResults ==
  /\ BatchReturned =>
        /\ SeqToSet(ResultRows) = BatchRows
        /\ Len(allResults) = batchEnd - i
        /\ \A n \in 1..Len(allResults) : allResults[n].success
        /\ \A j \in BatchRows :
              \A f \in SeqToSet(TargetFields(columnConfig)) : HasKey(RowAt(rows, j), f)
  /\ (InBatch \/ thrown.isThrown) => NoDuplicates(ResultRows)
  /\ thrown.isThrown =>
        {n - 1 : n \in SeqToSet(thrown.failedRows)} \cap SeqToSet(ResultRows) = {}

\* a batch of 3 rows has returned after two retry rounds
C6_Witness ==
  /\ BatchReturned
  /\ batchEnd - i = 3
  /\ retryCount = 2

(***************************************************************************)
(* processRow on its own: one row, one group column, and a model reply     *)
(* drawn from a corpus of texts                                            *)
(***************************************************************************)
RECURSIVE JoinMembers(_)
JoinMembers(ms) ==
  IF ms = <<>> THEN <<>>
  ELSE IF Len(ms) = 1 THEN ms[1]
  ELSE ms[1] \o <<",">> \o JoinMembers(Tail(ms))

\* the text of an object with the given member texts; an empty text is no member
ObjectText(a, b) ==
  <<"{">> \o JoinMembers(SelectSeq(<<a, b>>, LAMBDA m : m # <<>>)) \o <<"}">>

\* nothing, or "A": followed by a string, an empty string, 0, false, null, true,
\* 7 or an empty object
MembersA ==
  {<<>>} \cup
  {<<Q, "A", Q, ":">> \o v :
     v \in {<<Q, "x", Q>>, <<Q, Q>>, <<"0">>, FalseText, NullText, TrueText, <<"7">>,
            <<"{", "}">>}}

\* nothing, or "B": followed by a string or an empty string
MembersB ==
  {<<>>} \cup {<<" ", Q, "B", Q, " ", ":", " ">> \o v : v \in {<<Q, "y", Q>>, <<Q, Q>>}}

\* a text as it is, in whitespace, fenced with and without the json tag, with an
\* opening fence only, and fenced under another tag
Wrappings(text) ==
  {text,
   <<" ", "\n">> \o text \o <<"\n">>,
   Fence \o <<"j", "s", "o", "n", "\n">> \o text \o <<"\n">> \o Fence,
   Fence \o text \o Fence,
   Fence \o <<"j", "s", "o", "n", " ">> \o text,
   Fence \o <<"j", "s", "\n">> \o text \o <<"\n">> \o Fence}

Corpus ==
  UNION {Wrappings(ObjectText(a, b)) : a \in MembersA, b \in MembersB}
    \cup {TextAB, TextFencedA, TextNoJson, NullText, <<"5">>, <<Q, "x", Q>>, <<>>,
          <<"{", Q, "A", Q, ":", Q, "x", Q, ",", "}">>}

RowTargets == {<<FieldA, FieldB>>, <<FieldB>>}

RowConfigs ==
  {[inputFileName |-> <<"i">>, outputFileName |-> <<"o">>,
    columns |-> <<[GroupColumn(1, 0) EXCEPT !.columns = t]>>] : t \in RowTargets}

\* processRow(rows[0], 0, columnInfo, ...) awaits the model call
InitRow ==
  /\ pc = "await_all"
  /\ config \in RowConfigs
  /\ rows = <<InputRows[1]>>
  /\ col = 0
  /\ grand = ZeroStats
  /\ i = 0
  /\ batchEnd = 1
  /\ processedCount = 0
  /\ total = ZeroStats
  /\ rowsToProcess = <<0>>
  /\ allResults = <<>>
  /\ retryCount = 0
  /\ batchPromises = <<[rowIndex |-> 0, state |-> "pending",
                        prompt |-> fillPromptTemplate(PromptG, InputRows[1]),
                        reply |-> NoReply, result |-> NoOutcome, error |-> NoError]>>
  /\ sleeping = 0
  /\ progressFile = NoFile
  /\ outputFile = NoFile
  /\ thrown = NotThrown
  /\ attempts = [j \in {0} |-> 1]
  /\ failures = [j \in {0} |-> 0]
  /\ lastFailed = {}
  /\ backoffs = <<>>
  /\ ckptAttempts = 0
  /\ lastCkpt = "none"
  /\ finalWrites = 0
  /\ batchLog = <<<<0, 1>>>>
  /\ spent = [j \in {0} |-> NothingSpent]
  /\ columnTotals = <<>>
  /\ doneRows = <<>>
  /\ errorSummary = <<>>
  /\ pauses = 0
  /\ roundRows = <<InputRows[1]>>
  /\ orphans = EmptyBag

\* the model call returns a text of the corpus
ModelReplies ==
  /\ pc = "await_all"
  /\ batchPromises[1].state = "pending"
  /\ \E text \in Corpus : \E u \in {Usage0, Usage2} : TaskFulfilled(1, Reply(text, u))
  /\ UNCHANGED <<pc, config, mainVars, columnVars, rowsToProcess, allResults,
                 retryCount, attempts, failures, lastFailed, backoffs, sleeping,
                 fileVars, thrown, lastCkpt, finalWrites, batchLog, columnTotals,
                 doneRows, pauses, errorSummary, roundRows, orphans>>

NextRow == ModelReplies

SpecRow == InitRow /\ [][NextRow]_vars

\* the promises of the round whose model call has returned
Returned == {n \in 1..Len(batchPromises) : batchPromises[n].result.success}

\* what the reply of promise n decodes to, once its fences are stripped
DecodedReply(n) == JSONparse(StripFences(apiResultOf(batchPromises[n].reply).result))

\* the row of promise n
RowOf(n) == RowAt(rows, batchPromises[n].rowIndex)

\* C7: for a group column, a reply that decodes (fences stripped) to an object O
\* sets each target field t to O[t] when O has key t, whatever the value, and to
\* "__undetectable__" when it has not; a reply that does not decode sets every
\* target field to "__undetectable__"
C7_FieldsByKey ==
  \A n \in Returned :
    columnInfo.isGroup =>
      LET r == DecodedReply(n)
      IN \A f \in SeqToSet(columnInfo.columns) :
           /\ HasKey(RowOf(n), f)
           /\ (r.ok /\ r.v.t = "obj" /\ HasKey(r.v.m, f)) =>
                 Get(RowOf(n), f) = Get(r.v.m, f)
           /\ (r.ok /\ r.v.t = "obj" /\ ~HasKey(r.v.m, f)) =>
                 Get(RowOf(n), f) = Undetectable
           /\ ~r.ok => Get(RowOf(n), f) = Undetectable

(***************************************************************************)
(* Properties of the run                                                   *)
(***************************************************************************)
\* row j holds the sentinel in both fields of the group: its reply did not decode
MarkedBad(j) ==
  /\ HasKey(RowAt(rows, j), FieldA) /\ Get(RowAt(rows, j), FieldA) = Undetectable
  /\ HasKey(RowAt(rows, j), FieldB) /\ Get(RowAt(rows, j), FieldB) = Undetectable

\* C8: a group reply that does not decode never makes its row fail: the row's
\* outcome is a success carrying the cost and token counts of the call, the row
\* is not retried, causes no backoff and is not named by a thrown error
C8_MalformedIsSuccess ==
  /\ \A n \in Returned :
       (columnInfo.isGroup /\ ~DecodedReply(n).ok) =>
          LET p == batchPromises[n]
          IN /\ p.state = "fulfilled"
             /\ p.result.success
             /\ p.result.rowIndex = p.rowIndex
             /\ p.result.cost = (IF p.reply.hasUsage THEN p.reply.cost ELSE 0)
             /\ p.result.promptTokens = (IF p.reply.hasUsage THEN p.reply.prompt_tokens ELSE 0)
             /\ p.result.completionTokens =
                  (IF p.reply.hasUsage THEN p.reply.completion_tokens ELSE 0)
             /\ MarkedBad(p.rowIndex)
  /\ ((InBatch \/ thrown.isThrown) /\ col < totalColumns /\ columnInfo.isGroup) =>
       \A j \in BatchRows :
         MarkedBad(j) =>
           /\ j \in SucceededRows
           /\ failures[j] < attempts[j]
           /\ pc \in {"while", "backoff", "exit"} =>
                 /\ j \notin SeqToSet(rowsToProcess)
                 /\ j \notin lastFailed
                 /\ (j + 1) \notin SeqToSet(thrown.failedRows)
                 /\ \E n \in 1..Len(allResults) :
                       /\ allResults[n].rowIndex = j
                       /\ allResults[n].success
                       /\ allResults[n].cost = Usage2.cost
                       /\ allResults[n].promptTokens = Usage2.prompt_tokens
                       /\ allResults[n].completionTokens = Usage2.completion_tokens

\* the run is complete and its output written, with a row whose group reply did
\* not decode
C8_Witness ==
  /\ pc = "done"
  /\ outputFile.written
  /\ \E j \in 0..(totalRows - 1) : MarkedBad(j)

\* the rows a column has to have written before index e
ColumnWrote(c, e) ==
  \A j \in 0..(e - 1) :
    \A f \in SeqToSet(TargetFields(config.columns[c + 1])) : HasKey(RowAt(rows, j), f)

\* C9: within a column the batches run one after another: tasks in flight all
\* belong to the current batch, and none is issued for a batch before every row
\* of the batches before it has succeeded, their outcomes have been accumulated
\* and their checkpoint writes attempted
C9_BatchesInOrder ==
  /\ \A n \in 1..Len(batchPromises) : batchPromises[n].rowIndex \in BatchRows
  /\ batchPromises # <<>> => pc = "await_all"
  /\ pc = "await_all" =>
       /\ ColumnWrote(col, i)
       /\ processedCount = i
       /\ ckptAttempts * batchSize = i

\* the second batch of the second column is in flight
C9_Witness ==
  /\ pc = "await_all"
  /\ col = 1
  /\ i = 2
  /\ ckptAttempts = 1
  /\ \E n \in 1..Len(batchPromises) : batchPromises[n].state = "pending"

\* C10: the columns run in configured order and never concurrently: when a task
\* of a column is in flight every earlier column has written every row, and the
\* prompt filled for a row of the later column holds, in place of {{S}}, the
\* value the first column wrote into that row
C10_ColumnsInOrder ==
  pc = "await_all" =>
    /\ \A c \in 0..(col - 1) : ColumnWrote(c, totalRows)
    /\ col >= 1 =>
         \A n \in 1..Len(batchPromises) :
           LET j == batchPromises[n].rowIndex
           IN /\ Get(RowAt(rows, j), FieldS) = Str(<<"p", RowLetters[j + 1]>>)
              /\ batchPromises[n].prompt =
                   ToStr(Get(RowAt(rows, j), FieldS)) \o <<":", "{", "{", "A", "}", "}">>

\* a retry round of the second column is in flight for the last row
C10_Witness ==
  /\ pc = "await_all"
  /\ col = 1
  /\ retryCount = 1
  /\ \E n \in 1..Len(batchPromises) :
        /\ batchPromises[n].rowIndex = totalRows - 1
        /\ batchPromises[n].state = "pending"

(***************************************************************************)
(* Properties of processColumn and main                                    *)
(***************************************************************************)
\* the smallest integer not below r / b
Ceil(r, b) == (r + b - 1) \div b

\* the row set as writeCSV writes it
RowSetFile == CsvFile(rows, ObjectKeys(RowAt(rows, 0)))

\* C11: processColumn makes one checkpoint write for each batch that completes,
\* once the rows of that batch are all done and before the next batch starts; a
\* write replaces the file by the row set as a whole; a column of R rows with
\* batch size B makes ceil(R/B) checkpoint writes
C11_CheckpointPerBatch ==
  /\ pc \in {"while", "await_all", "backoff", "checkpoint"} =>
        ckptAttempts = Len(batchLog) - 1
  /\ pc \in {"cooldown", "batch_loop"} => ckptAttempts = Len(batchLog)
  /\ pc = "checkpoint" => ColumnWrote(col, batchEnd)
  /\ (pc \in {"main", "final_write", "done"} /\ col >= 1) =>
        ckptAttempts = Ceil(totalRows, config.columns[col].batchSize)
  /\ (lastCkpt = "written" /\ pc \in {"cooldown", "batch_loop", "main", "final_write"}) =>
        CheckpointFile = RowSetFile
  /\ (lastCkpt = "written" /\ (pc = "exit" => thrown.isThrown)) =>
        /\ CheckpointFile.written
        /\ Len(CheckpointFile.records) = totalRows

\* a column of batch size 2 is over after 2 batches and 2 checkpoint writes, the
\* second of them replacing the first
C11_Witness ==
  /\ pc = "main"
  /\ col = 1
  /\ config.columns[1].batchSize = 2
  /\ Len(batchLog) = 2
  /\ ckptAttempts = 2
  /\ lastCkpt = "written"
  /\ progressFile = RowSetFile

\* C12: the exhausted-retry error of processBatch is fatal: once it is thrown the
\* run has ended in failure and nothing happens any more: no batch, column, model
\* invocation, sleep or checkpoint write follows and the output is not written
C12_FatalFailure ==
  /\ [](thrown.isThrown =>
          /\ pc = "exit"
          /\ batchPromises = <<>>
          /\ sleeping = 0
          /\ finalWrites = 0
          /\ col < totalColumns
          /\ Len(columnTotals) = col
          /\ batchLog[Len(batchLog)] = <<i, batchEnd>>
          /\ ckptAttempts = Len(batchLog) - 1
          /\ (progressFilePath # config.outputFileName => ~outputFile.written))
  /\ [][~thrown.isThrown]_vars

\* the error is thrown in the second batch of the second column, after
\* checkpoints were written
C12_Witness ==
  /\ thrown.isThrown
  /\ pc = "exit"
  /\ col = 1
  /\ i > 0
  /\ lastCkpt = "written"

\* the sum of the figures spent on the rows of S
RECURSIVE SpentOn(_)
SpentOn(S) ==
  IF S = {} THEN ZeroStats
  ELSE LET j == CHOOSE x \in S : TRUE
           rest == SpentOn(S \ {j})
       IN [cost |-> spent[j].cost + rest.cost,
           promptTokens |-> spent[j].promptTokens + rest.promptTokens,
           completionTokens |-> spent[j].completionTokens + rest.completionTokens]

RECURSIVE SumStats(_)
SumStats(q) ==
  IF q = <<>> THEN ZeroStats
  ELSE LET rest == SumStats(Tail(q))
       IN [cost |-> q[1].cost + rest.cost,
           promptTokens |-> q[1].promptTokens + rest.promptTokens,
           completionTokens |-> q[1].completionTokens + rest.completionTokens]

\* a batch has completed before the one that failed
SomeBatchCompleted == doneRows # <<>>

\* the statistics are those of the batches completed before the failure
StatisticsKept ==
  /\ processedCount = i
  /\ total = SpentOn(0..(i - 1))
  /\ grand = SumStats(columnTotals)
  /\ Len(columnTotals) = col

\* C13 as stated: after a fatal failure the checkpoint holds the row set as it
\* stood when the last completed batch finished, and the statistics of the
\* completed batches are unaltered
C13_AsStated ==
  (thrown.isThrown /\ SomeBatchCompleted) =>
     /\ CheckpointFile = CsvFile(doneRows, ObjectKeys(RowAt(doneRows, 0)))
     /\ StatisticsKept

\* C13 amended: after a fatal failure the statistics of the completed batches
\* are unaltered, and the checkpoint holds the row set as it stood when the last
\* completed batch finished provided the checkpoint write of that batch
\* succeeded; a write that failed left the file it found, or an empty one
C13_NothingDiscarded ==
  /\ (thrown.isThrown /\ SomeBatchCompleted) =>
        /\ lastCkpt = "written" =>
              CheckpointFile = CsvFile(doneRows, ObjectKeys(RowAt(doneRows, 0)))
        /\ lastCkpt = "failed" =>
              \/ CheckpointFile = EmptyFile
              \/ CheckpointFile = NoFile
              \/ /\ CheckpointFile.written
                 /\ Len(CheckpointFile.records) = totalRows
                 /\ CheckpointFile # CsvFile(doneRows, ObjectKeys(RowAt(doneRows, 0)))
        /\ StatisticsKept
  /\ (thrown.isThrown /\ ~SomeBatchCompleted) =>
        /\ CheckpointFile = NoFile
        /\ total = ZeroStats
        /\ grand = ZeroStats

\* a batch of the second column fails while a row of that batch has succeeded;
\* the checkpoint holds the rows without that row's new fields
C13_Witness ==
  /\ thrown.isThrown
  /\ col = 1
  /\ lastCkpt = "written"
  /\ allResults # <<>>
  /\ rows # doneRows
  /\ CheckpointFile = CsvFile(doneRows, ObjectKeys(RowAt(doneRows, 0)))

\* the output file holds field f of row j, with the row's value
OutputHolds(j, f, value) ==
  \E h \in 1..Len(outputFile.header) :
    /\ outputFile.header[h] = f
    /\ outputFile.records[j + 1][h] = value
    /\ value # <<>>

\* C14: a run in which no batch exhausts its retries goes through every column
\* to main's write of the output, which happens once, after the last column; the
\* output then holds, for every row, its original field and a value for every
\* target field of every column
C14_CompleteOutput ==
  /\ finalWrites <= 1
  /\ finalWrites = 1 <=> pc = "done"
  /\ (pc = "exit" /\ ValidConfig(config) /\ ~thrown.isThrown) =>
        /\ col = totalColumns
        /\ Len(columnTotals) = totalColumns
        /\ finalWrites = 0
  /\ pc \in {"final_write", "done"} =>
        /\ col = totalColumns
        /\ ~thrown.isThrown
        /\ \A c \in 0..(totalColumns - 1) : ColumnWrote(c, totalRows)
  /\ pc = "done" =>
        /\ outputFile.written
        /\ Len(outputFile.records) = totalRows
        /\ \A j \in 0..(totalRows - 1) :
             /\ Len(outputFile.records[j + 1]) = Len(outputFile.header)
             /\ OutputHolds(j, <<"V">>, <<RowLetters[j + 1]>>)
             /\ \A c \in 0..(totalColumns - 1) :
                  \A f \in SeqToSet(TargetFields(config.columns[c + 1])) :
                    OutputHolds(j, f, ToStr(Get(RowAt(rows, j), f)))

\* a run of batch size 2 is complete, after a row needed a retry
C14_Witness ==
  /\ pc = "done"
  /\ finalWrites = 1
  /\ batchLog = <<<<0, 2>>, <<2, totalRows>>>>
  /\ retryCount > 0
  /\ OutputHolds(totalRows - 1, FieldS, <<"p", RowLetters[totalRows]>>)

\* the number of ranges of batchLog that hold row index j
RangesHolding(j) ==
  Cardinality({k \in 1..Len(batchLog) : batchLog[k][1] <= j /\ j < batchLog[k][2]})

\* C15: for R rows and batch size B >= 1 the batches of a column are the ranges
\* [0,B), [B,2B), ... taken in increasing order: contiguous, disjoint, each of B
\* rows but the last, which may be smaller and is never empty; at the end of the
\* column there are ceil(R/B) of them and they hold every row index once
C15_BatchPartition ==
  (pc \notin {"start"} /\ ValidConfig(config) /\ batchLog # <<>>) =>
     LET B == config.columns[(IF col < totalColumns /\ pc # "main" THEN col ELSE col - 1) + 1].batchSize
         R == totalRows
         n == Len(batchLog)
     IN /\ B >= 1
        /\ \A k \in 1..n :
             /\ batchLog[k][1] = (k - 1) * B
             /\ batchLog[k][2] = Min(k * B, R)
             /\ batchLog[k][1] < batchLog[k][2]
             /\ k < n => batchLog[k][2] - batchLog[k][1] = B
             /\ k > 1 => batchLog[k][1] = batchLog[k - 1][2]
        /\ batchLog[n][2] - batchLog[n][1] <= B
        /\ n <= Ceil(R, B)
        /\ \A j \in 0..(R - 1) : RangesHolding(j) <= 1
        /\ (pc = "while" /\ retryCount = 0 /\ allResults = <<>>) =>
              rowsToProcess = [m \in 1..(batchEnd - i) |-> i + m - 1]
        /\ InBatch => batchLog[n] = <<i, batchEnd>>
        /\ pc \in {"main", "final_write", "done"} =>
              /\ n = Ceil(R, B)
              /\ batchLog[n][2] = R
              /\ \A j \in 0..(R - 1) : RangesHolding(j) = 1

\* a column of batch size 2 is over: its last batch was smaller than the first
C15_Witness ==
  /\ pc = "main"
  /\ col = 2
  /\ Len(batchLog) >= 2
  /\ batchLog[1] = <<0, 2>>
  /\ batchLog[Len(batchLog)][2] = totalRows
  /\ totalRows % 2 = 1

\* the batch that has just been checkpointed is the last one of its column
FinalBatch == batchEnd >= totalRows

\* C16 as stated: after each batch has completed and been checkpointed the
\* column suspends for the cooldown, unless the batch was the final one and the
\* cooldown is zero (a suspension of zero length counts as made)
C16_AsStated ==
  [][(pc = "checkpoint" /\ ~(FinalBatch /\ cooldown = 0) /\ cooldown > 0) =>
        (pc' = "cooldown" /\ sleeping' = cooldown)]_vars

\* C16 amended: after each batch has completed and been checkpointed the column
\* suspends for the cooldown exactly when the batch was not the final one of the
\* column and the cooldown is above zero; otherwise it goes on without a pause
C16_CooldownBetweenBatches ==
  /\ [][pc = "checkpoint" =>
          IF ~FinalBatch /\ cooldown > 0
          THEN pc' = "cooldown" /\ sleeping' = cooldown
          ELSE pc' = "batch_loop" /\ sleeping' = 0]_vars
  /\ [](pc = "cooldown" =>
          /\ sleeping = cooldown
          /\ cooldown > 0
          /\ ~FinalBatch
          /\ ckptAttempts = Len(batchLog)
          /\ ColumnWrote(col, batchEnd))
  /\ [][pc' = "cooldown" => pc = "checkpoint"]_vars

\* the cooldown of 200 ms is being slept after the first batch of the second
\* column, whose checkpoint was written
C16_Witness ==
  /\ pc = "cooldown"
  /\ sleeping = 200
  /\ col = 1
  /\ i = 0
  /\ lastCkpt = "written"

(***************************************************************************)
(* fillPromptTemplate on its own: templates put together from pieces       *)
(* (literal text and placeholders), each filled from one row               *)
(***************************************************************************)
Placeholder(name) == <<"{", "{">> \o name \o <<"}", "}">>

\* pieces: [lit, name]; a placeholder piece has an empty lit
Literal(text) == [lit |-> text, name |-> <<>>]
Hole(name) == [lit |-> <<>>, name |-> name]

\* literal texts: none holds a placeholder, and none put next to another makes
\* one whose name a row could have
LiteralTexts ==
  {<<"x">>, <<" ">>, <<"{">>, <<"}">>, <<"{", "{", " ", "V", " ", "}", "}">>,
   <<"{", "{", "}", "}">>, <<"{", "{", "V", "-", "V", "}", "}">>, <<"{", "V", "}">>, <<"$", "&">>}

FieldW == <<"W">>
FieldTwoWords == <<"V", " ", "A">>
FieldR == <<"R">>

HoleNames == {<<"V">>, FieldW, FieldTwoWords, FieldR, FieldA, ConstructorName}

Pieces == {Literal(t) : t \in LiteralTexts} \cup {Hole(n) : n \in HoleNames}

MaxPieces == 2

PieceSeqs == UNION {[1..n -> Pieces] : n \in 1..MaxPieces}

PieceText(p) == IF p.name = <<>> THEN p.lit ELSE Placeholder(p.name)

RECURSIVE TemplateOf(_)
TemplateOf(ps) == IF ps = <<>> THEN <<>> ELSE PieceText(ps[1]) \o TemplateOf(Tail(ps))

\* rows to fill from: the input row; a row with a multi-word field, a field
\* whose value is a placeholder and a number written by a group column; a row
\* whose field is empty
FillRows ==
  {InputRows[1],
   <<[k |-> <<"V">>, v |-> Str(<<"a">>)],
     [k |-> FieldTwoWords, v |-> Str(<<"c", " ", "d">>)],
     [k |-> FieldR, v |-> Str(Placeholder(<<"V">>))],
     [k |-> FieldA, v |-> Num(<<"7">>)]>>,
   <<[k |-> <<"V">>, v |-> Str(<<>>)], [k |-> FieldR, v |-> Str(<<"$", "&">>)]>>}

FillConfigs ==
  {[inputFileName |-> <<"i">>, outputFileName |-> OutputCsv,
    columns |-> <<[SingleColumn(1, 0) EXCEPT !.prompt = TemplateOf(ps)]>>] :
     ps \in PieceSeqs}

\* processBatch(rows, 0, 1, ...) is about to create the task of row 0
InitFill ==
  /\ pc = "while"
  /\ config \in FillConfigs
  /\ rows \in {<<r>> : r \in FillRows}
  /\ col = 0
  /\ grand = ZeroStats
  /\ i = 0
  /\ batchEnd = 1
  /\ processedCount = 0
  /\ total = ZeroStats
  /\ rowsToProcess = <<0>>
  /\ allResults = <<>>
  /\ retryCount = 0
  /\ batchPromises = <<>>
  /\ sleeping = 0
  /\ progressFile = NoFile
  /\ outputFile = NoFile
  /\ thrown = NotThrown
  /\ attempts = [j \in {0} |-> 0]
  /\ failures = [j \in {0} |-> 0]
  /\ lastFailed = {}
  /\ backoffs = <<>>
  /\ ckptAttempts = 0
  /\ lastCkpt = "none"
  /\ finalWrites = 0
  /\ batchLog = <<<<0, 1>>>>
  /\ spent = [j \in {0} |-> NothingSpent]
  /\ columnTotals = <<>>
  /\ doneRows = <<>>
  /\ errorSummary = <<>>
  /\ pauses = 0
  /\ roundRows = <<>>
  /\ orphans = EmptyBag

\* the task is created: processRow fills the prompt from the row
NextFill == LaunchRound

SpecFill == InitFill /\ [][NextFill]_vars

\* the pieces a template was put together from
PiecesOf(template) == CHOOSE ps \in PieceSeqs : TemplateOf(ps) = template

\* what the claim makes of a piece: a placeholder gives the row's value of the
\* field when the row has it and stays as it is when the row lacks it; literal
\* text stays as it is
FilledPiece(p, rowData) ==
  IF p.name = <<>> THEN p.lit
  ELSE IF HasKey(rowData, p.name) THEN ToStr(Get(rowData, p.name))
  ELSE Placeholder(p.name)

RECURSIVE FilledPieces(_, _)
FilledPieces(ps, rowData) ==
  IF ps = <<>> THEN <<>>
  ELSE FilledPiece(ps[1], rowData) \o FilledPieces(Tail(ps), rowData)

\* C17: the filled prompt is the template with each placeholder {{name}}
\* replaced by the row's value of field name when the row has the field and left
\* as it is when the row lacks it; other text is unchanged, substituted values
\* are not scanned again, and the row is not modified
C17_FillPrompt ==
  \A n \in 1..Len(batchPromises) :
    (batchPromises[n].state = "pending" /\ columnConfig.prompt \in {TemplateOf(ps) : ps \in PieceSeqs}) =>
       /\ batchPromises[n].prompt =
            FilledPieces(PiecesOf(columnConfig.prompt), RowAt(rows, batchPromises[n].rowIndex))
       /\ RowAt(rows, batchPromises[n].rowIndex) \in FillRows

\* no figure of totals a lies above that of totals b
NotAbove(a, b) ==
  /\ a.cost <= b.cost
  /\ a.promptTokens <= b.promptTokens
  /\ a.completionTokens <= b.completionTokens

\* the rows counted once the loop variable stands at index e
CountedUpTo(e) ==
  /\ processedCount = Min(e, totalRows)
  /\ total = SpentOn(0..(Min(e, totalRows) - 1))

\* C18: a column's totals are the sums, over its rows, of the figures of each
\* row's one successful invocation (after a batch ending at index e, e rows are
\* counted); the run's totals are the sums of the columns' totals; and the
\* running totals never decrease
C18_Totals ==
  /\ [](pc \notin {"start", "main", "final_write", "done", "exit"} =>
          /\ \A j \in DOMAIN spent : spent[j].count <= 1
          /\ \A j \in DOMAIN spent :
               spent[j].count = 0 => spent[j] = NothingSpent
          /\ InBatch => CountedUpTo(i)
          /\ pc \in {"checkpoint", "cooldown"} => CountedUpTo(batchEnd)
          /\ pc = "batch_loop" => CountedUpTo(i))
  /\ [](pc \in {"main", "final_write", "done"} =>
          /\ Len(columnTotals) = col
          /\ grand = SumStats(columnTotals)
          /\ col >= 1 =>
               /\ columnTotals[col] = SpentOn(0..(totalRows - 1))
               /\ \A j \in DOMAIN spent : spent[j].count = 1
               /\ columnTotals[1] =
                    [cost |-> totalRows * Usage1.cost,
                     promptTokens |-> totalRows * Usage1.prompt_tokens,
                     completionTokens |-> totalRows * Usage1.completion_tokens])
  /\ [](grand = SumStats(columnTotals))
  /\ [][NotAbove(grand, grand')]_vars
  /\ [][pc # "main" => NotAbove(total, total')]_vars
  /\ [][(pc = "main" /\ pc' = "batch_loop") => total' = ZeroStats]_vars

\* both columns are over after a retry, the second having cost 5 for one row
\* whose reply did not decode and nothing for the others
C18_Witness ==
  /\ pc = "main"
  /\ col = 2
  /\ retryCount > 0
  /\ columnTotals[2].cost = Usage2.cost
  /\ grand.cost = totalRows * Usage1.cost + Usage2.cost
  /\ grand.promptTokens = totalRows * Usage1.prompt_tokens + Usage2.prompt_tokens

\* the tasks in flight: the promises of the round that have not settled
InFlight == {n \in 1..Len(batchPromises) : batchPromises[n].state = "pending"}

\* C19: a row never has two tasks in flight: the tasks of a round are for
\* different rows, a round is started only when no task exists, the tasks of a
\* round are left behind only once they have all settled, and outside a round
\* (between rounds, batches and columns) no task exists
C19_OneTaskPerRow ==
  /\ [](\A n \in InFlight : \A m \in InFlight :
          batchPromises[n].rowIndex = batchPromises[m].rowIndex => n = m)
  /\ [](NoDuplicates(LaunchedRows))
  /\ [](pc # "await_all" => batchPromises = <<>>)
  /\ [][(pc # "await_all" /\ pc' = "await_all") =>
          /\ batchPromises = <<>>
          /\ Len(batchPromises') = Len(rowsToProcess)
          /\ \A n \in 1..Len(batchPromises') : batchPromises'[n].state = "pending"]_vars
  /\ [][(batchPromises # <<>> /\ pc' # "await_all") => InFlight = {}]_vars
  /\ [][\A j \in 1..Len(rows) :
          rows'[j] # rows[j] =>
            /\ Cardinality({n \in InFlight : batchPromises[n].rowIndex = j - 1}) = 1
            /\ \A n \in InFlight :
                 batchPromises[n].rowIndex = j - 1 => batchPromises'[n].state # "pending"]_vars

\* a retry round has two tasks in flight, for two rows, while the third row of
\* the batch has succeeded
C19_Witness ==
  /\ pc = "await_all"
  /\ retryCount >= 1
  /\ Cardinality(InFlight) = 2
  /\ Len(allResults) = 1

\* C20: a failed checkpoint write does not end the run and changes nothing but
\* the progress file: the step out of the checkpoint leaves the rows and the
\* statistics as they are and goes on to the same cooldown or loop step as after
\* a write that succeeded, and what is done afterwards does not depend on the
\* file: the run can still complete, with the output holding the row set
C20_CheckpointFailureHarmless ==
  /\ [][pc = "checkpoint" =>
          /\ rows' = rows
          /\ total' = total
          /\ grand' = grand
          /\ processedCount' = processedCount
          /\ col' = col
          /\ batchEnd' = batchEnd
          /\ thrown' = thrown
          /\ finalWrites' = finalWrites
          /\ ckptAttempts' = ckptAttempts + 1
          /\ UNCHANGED batchVars
          /\ IF ~FinalBatch /\ cooldown > 0
             THEN pc' = "cooldown" /\ sleeping' = cooldown /\ i' = i
             ELSE pc' = "batch_loop" /\ sleeping' = 0 /\ i' = i + batchSize]_vars
  /\ [][(pc = "checkpoint" /\ lastCkpt' = "failed") =>
          /\ progressFilePath # config.outputFileName => outputFile' = outputFile
          /\ CheckpointFile' \in {CheckpointFile, EmptyFile}]_vars
  /\ [](lastCkpt = "failed" /\ pc = "exit" =>
          thrown.isThrown \/ (col = totalColumns /\ finalWrites = 0))
  /\ [](pc = "done" => outputFile = RowSetFile)

\* the run is complete, its output written, although the last checkpoint write
\* failed and left an empty file
C20_Witness ==
  /\ pc = "done"
  /\ lastCkpt = "failed"
  /\ progressFile = EmptyFile
  /\ outputFile = RowSetFile
  /\ Len(columnTotals) = 2

(***************************************************************************)
(* The header of the output, over inputs and columns whose names include   *)
(* an array index                                                          *)
(***************************************************************************)
FieldSeven == <<"7">>

\* the usual columns over the input with a field named 7, a column named 7
\* over the usual input, and the usual columns over an input without records
HeaderConfigs ==
  {[inputFileName |-> NumberedName, outputFileName |-> OutputCsv,
    columns |-> <<SingleColumn(2, 200), GroupColumn(2, 200)>>],
   [inputFileName |-> InputName, outputFileName |-> OutputCsv,
    columns |-> <<[SingleColumn(2, 0) EXCEPT !.name = FieldSeven]>>],
   [inputFileName |-> EmptyName, outputFileName |-> OutputCsv,
    columns |-> <<SingleColumn(2, 0)>>]}

InitHeader ==
  /\ pc = "start"
  /\ config \in HeaderConfigs
  /\ rows = <<>>
  /\ col = 0
  /\ grand = ZeroStats
  /\ i = 0
  /\ batchEnd = 0
  /\ processedCount = 0
  /\ total = ZeroStats
  /\ rowsToProcess = <<>>
  /\ allResults = <<>>
  /\ retryCount = 0
  /\ batchPromises = <<>>
  /\ sleeping = 0
  /\ progressFile = NoFile
  /\ outputFile = NoFile
  /\ thrown = NotThrown
  /\ attempts = <<>>
  /\ failures = <<>>
  /\ lastFailed = {}
  /\ backoffs = <<>>
  /\ ckptAttempts = 0
  /\ lastCkpt = "none"
  /\ finalWrites = 0
  /\ batchLog = <<>>
  /\ spent = <<>>
  /\ columnTotals = <<>>
  /\ doneRows = <<>>
  /\ errorSummary = <<>>
  /\ pauses = 0
  /\ roundRows = <<>>
  /\ orphans = EmptyBag

SpecHeader == InitHeader /\ [][Next]_vars

\* the fields the columns of a configuration produce, in declaration order
RECURSIVE DeclaredFields(_, _)
DeclaredFields(columns, n) ==
  IF n = 0 THEN <<>>
  ELSE DeclaredFields(columns, n - 1) \o TargetFields(columns[n])

\* C21: the header of the final output is the header line of the input, in its
\* order, followed by the fields the columns produce, in the order the
\* configuration declares them (a group's in the order of its column names)
C21_HeaderOrder ==
  pc = "done" =>
    outputFile.header =
      InputFileAt(config.inputFileName).header
        \o DeclaredFields(config.columns, Len(config.columns))

(***************************************************************************)
(* Properties of the validation                                            *)
(***************************************************************************)
\* no required field of the configuration is left out
HasRequiredFields(c) ==
  /\ c.inputFileName # Absent
  /\ c.outputFileName # Absent
  /\ c.columns # Absent
  /\ \A n \in 1..Len(c.columns) :
       /\ c.columns[n].name # Absent
       /\ c.columns[n].modelName # Absent
       /\ c.columns[n].prompt # Absent
       /\ c.columns[n].group => c.columns[n].columns # Absent

\* C22: a configuration with a required field left out is rejected before any
\* row is loaded, any model call made or any file written, and every column
\* of a run that has loaded its rows has at least one target field
C22_RejectedEarly ==
  /\ ~HasRequiredFields(config) =>
       /\ pc \in {"start", "exit"}
       /\ rows = <<>>
       /\ batchPromises = <<>>
       /\ attempts = <<>>
       /\ spent = <<>>
       /\ progressFile = NoFile
       /\ outputFile = NoFile
  /\ rows # <<>> =>
       \A n \in 1..Len(config.columns) : TargetFields(config.columns[n]) # <<>>

\* a configuration whose first column is complete and whose second is not has
\* been rejected
C22_Witness ==
  /\ pc = "exit"
  /\ ~HasRequiredFields(config)
  /\ Len(config.columns) = 2
  /\ HasRequiredFields([config EXCEPT !.columns = <<config.columns[1]>>])
  /\ config.columns[2].columns = Absent
  /\ rows = <<>>

(***************************************************************************)
(* Properties of the cooldown                                              *)
(***************************************************************************)
\* C23: the run pauses for a cooldown only between two batches of one column,
\* for the configured duration: a column of n batches with a cooldown above
\* zero pauses n - 1 times, never after its last batch nor between two
\* columns, and a column with cooldown 0 never pauses
C23_PausesBetweenBatches ==
  /\ pc = "cooldown" =>
       /\ col < totalColumns
       /\ sleeping = cooldown
       /\ cooldown > 0
       /\ batchEnd < totalRows
       /\ pauses = Len(batchLog)
  /\ pc \notin {"cooldown", "backoff"} => sleeping = 0
  /\ (col < totalColumns /\ pc \in {"while", "await_all", "backoff", "checkpoint"}) =>
       pauses = IF cooldown > 0 THEN Len(batchLog) - 1 ELSE 0
  /\ (pc = "main" /\ col > 0) =>
       LET cc == config.columns[col]
       IN /\ Len(batchLog) = Ceil(totalRows, cc.batchSize)
          /\ pauses = IF cc.cooldown > 0 THEN Len(batchLog) - 1 ELSE 0

\* the first column has returned after three batches and two pauses
C23_Witness ==
  /\ pc = "main"
  /\ col = 1
  /\ config.columns[1].cooldown = 200
  /\ Len(batchLog) = 3
  /\ pauses = 2

(***************************************************************************)
(* The error summary, over a model whose calls fail in four ways           *)
(***************************************************************************)
SummaryConfigs ==
  {[inputFileName |-> InputName, outputFileName |-> OutputCsv,
    columns |-> <<[SingleColumn(2, 200) EXCEPT !.modelName = FlakyModel]>>],
   [inputFileName |-> EmptyName, outputFileName |-> OutputCsv,
    columns |-> <<[SingleColumn(2, 200) EXCEPT !.modelName = FlakyModel]>>]}

InitSummary ==
  /\ pc = "start"
  /\ config \in SummaryConfigs
  /\ rows = <<>>
  /\ col = 0
  /\ grand = ZeroStats
  /\ i = 0
  /\ batchEnd = 0
  /\ processedCount = 0
  /\ total = ZeroStats
  /\ rowsToProcess = <<>>
  /\ allResults = <<>>
  /\ retryCount = 0
  /\ batchPromises = <<>>
  /\ sleeping = 0
  /\ progressFile = NoFile
  /\ outputFile = NoFile
  /\ thrown = NotThrown
  /\ attempts = <<>>
  /\ failures = <<>>
  /\ lastFailed = {}
  /\ backoffs = <<>>
  /\ ckptAttempts = 0
  /\ lastCkpt = "none"
  /\ finalWrites = 0
  /\ batchLog = <<>>
  /\ spent = <<>>
  /\ columnTotals = <<>>
  /\ doneRows = <<>>
  /\ errorSummary = <<>>
  /\ pauses = 0
  /\ roundRows = <<>>
  /\ orphans = EmptyBag

SpecSummary == InitSummary /\ [][Next]_vars

\* the entries of a summary that list row number r
EntriesListing(summary, r) ==
  {n \in 1..Len(summary) : \E m \in 1..Len(summary[n].rows) : summary[n].rows[m] = r}

\* how many row numbers a summary lists in all
RECURSIVE ListedIn(_, _)
ListedIn(summary, n) ==
  IF n = 0 THEN 0 ELSE ListedIn(summary, n - 1) + Len(summary[n].rows)

\* C24: when rows fail in a round, each of them is listed (as its row number)
\* under exactly one entry of the error summary, two of them under the same
\* entry exactly when their errors have the same status and message, and the
\* entries list no other row and no row twice
C24_ErrorSummary ==
  [][(pc = "await_all" /\ pc' # "await_all"
        /\ \E n \in 1..Len(batchPromises) : batchPromises[n].state = "rejected") =>
      LET failed == {n \in 1..Len(batchPromises) : batchPromises[n].state = "rejected"}
          rowNumber(n) == batchPromises[n].rowIndex + 1
      IN /\ \A n \in failed :
              Cardinality(EntriesListing(errorSummary', rowNumber(n))) = 1
         /\ \A n, m \in failed :
              (EntriesListing(errorSummary', rowNumber(n))
                 = EntriesListing(errorSummary', rowNumber(m)))
              <=> (/\ batchPromises[n].error.status = batchPromises[m].error.status
                   /\ batchPromises[n].error.message = batchPromises[m].error.message)
         /\ ListedIn(errorSummary', Len(errorSummary')) = Cardinality(failed)
         /\ \A e \in 1..Len(errorSummary') : errorSummary'[e].rows # <<>>]_vars

\* a round has ended in which two rows failed with the same status and
\* different messages: the summary has an entry for each
C24_Witness ==
  /\ pc = "backoff"
  /\ Len(errorSummary) = 2
  /\ errorSummary[1].key[1] = errorSummary[2].key[1]
  /\ errorSummary[1].key[3] # errorSummary[2].key[3]
  /\ Cardinality(lastFailed) = 2

\* a round has ended in which two rows failed with the same status and
\* message: the summary has one entry, listing both
C24_WitnessGrouped ==
  /\ pc = "backoff"
  /\ Len(errorSummary) = 1
  /\ Len(errorSummary[1].rows) = 2

(***************************************************************************)
(* Properties of the content of a checkpoint                               *)
(***************************************************************************)
\* file holds one record per row of rs and, for every field any of these rows
\* has, a header of that name under which the row's record has its value
HoldsRowSet(file, rs) ==
  /\ file.written
  /\ Len(file.records) = Len(rs)
  /\ \A n \in 1..Len(rs) :
       /\ Len(file.records[n]) = Len(file.header)
       /\ \A k \in Keys(rs[n]) :
            \E h \in 1..Len(file.header) :
              /\ file.header[h] = k
              /\ file.records[n][h] = ToStr(Get(rs[n], k))

\* the rows have the fields and values of the input
OriginalFieldsKept(rs) ==
  LET input == readCSV(InputFileAt(config.inputFileName))
  IN /\ Len(rs) = Len(input)
     /\ \A n \in 1..Len(input) :
          \A k \in Keys(input[n]) : HasKey(rs[n], k) /\ Get(rs[n], k) = Get(input[n], k)

\* the file at progressFilePath is still the latest checkpoint: main has not
\* started to write an output of the same path
CheckpointStands ==
  \/ pc \in {"cooldown", "batch_loop", "while", "await_all", "backoff", "main"}
  \/ pc = "exit" /\ thrown.isThrown

\* C25: a checkpoint that is written holds the whole row set as it stands when
\* the batch has returned: every row, with its original fields and every field
\* populated so far, by the batches completed in the current column and by all
\* earlier columns; every field some row has is in its header
C25_CheckpointFull ==
  /\ (lastCkpt = "written" /\ pc \in {"cooldown", "batch_loop"}) =>
        /\ rows = doneRows
        /\ OriginalFieldsKept(doneRows)
        /\ ColumnWrote(col, Min(batchEnd, totalRows))
        /\ \A c \in 0..(col - 1) : ColumnWrote(c, totalRows)
  /\ (lastCkpt = "written" /\ CheckpointStands) => HoldsRowSet(CheckpointFile, doneRows)

\* the checkpoint of the first batch of the second column is written: its
\* header has the group's fields, which the rows of the second batch lack
C25_Witness ==
  /\ pc = "cooldown"
  /\ col = 1
  /\ lastCkpt = "written"
  /\ progressFile.header = <<<<"V">>, FieldS, FieldA, FieldB>>
  /\ progressFile.records[1][3] # <<>>
  /\ progressFile.records[totalRows][3] = <<>>

(***************************************************************************)
(* Properties of a failed invocation                                       *)
(***************************************************************************)
\* row j as it was when the current batch began: as the batch before it left
\* it or, for the first batch of the run, as it was read
RowAtBatchStart(j) ==
  IF doneRows = <<>>
  THEN RowAt(readCSV(InputFileAt(config.inputFileName)), j)
  ELSE RowAt(doneRows, j)

\* no invocation for row j has succeeded in the current batch
StillFailing(j) ==
  /\ \A n \in 1..Len(allResults) : allResults[n].rowIndex # j
  /\ \A n \in 1..Len(batchPromises) :
       batchPromises[n].rowIndex = j => batchPromises[n].state # "fulfilled"

\* C26: a row is written only by an invocation for it that succeeds.  While no
\* invocation for a row has succeeded in a batch the row is as it was when the
\* batch began, every prompt sent for it is the one of its first attempt, and a
\* row named in the exhausted-retry error is as it was when the batch began
C26_FailureLeavesRow ==
  /\ [](InBatch =>
          /\ \A j \in BatchRows : StillFailing(j) => RowAt(rows, j) = RowAtBatchStart(j)
          /\ \A n \in 1..Len(batchPromises) :
               batchPromises[n].prompt =
                 fillPromptTemplate(columnConfig.prompt,
                                    RowAtBatchStart(batchPromises[n].rowIndex)))
  /\ [](thrown.isThrown =>
          \A n \in 1..Len(rowsToProcess) :
            /\ RowAt(rows, rowsToProcess[n]) = RowAtBatchStart(rowsToProcess[n])
            /\ failures[rowsToProcess[n]] = attempts[rowsToProcess[n]])
  /\ [][(rows' # rows /\ rows # <<>>) =>
          \E n \in 1..Len(batchPromises) :
            /\ batchPromises[n].state = "pending"
            /\ batchPromises'[n].state = "fulfilled"
            /\ \A j \in 0..(totalRows - 1) :
                 j # batchPromises[n].rowIndex => RowAt(rows', j) = RowAt(rows, j)]_vars

\* in the second column a row of a batch is tried for the third time after the
\* other row of the batch has succeeded
C26_Witness ==
  /\ pc = "await_all"
  /\ col = 1
  /\ retryCount = 2
  /\ allResults # <<>>
  /\ Len(batchPromises) = 1
  /\ batchPromises[1].state = "pending"
  /\ RowAt(rows, batchPromises[1].rowIndex) = RowAtBatchStart(batchPromises[1].rowIndex)
  /\ rows # doneRows

(***************************************************************************)
(* Properties of the order in which the tasks of a round complete          *)
(***************************************************************************)
\* the row set rs after the first n tasks of a round, taken in the order they
\* were started, have stored the result each of them got
RECURSIVE InStartOrder(_, _, _)
InStartOrder(rs, promises, n) ==
  IF n = 0 THEN rs
  ELSE LET before == InStartOrder(rs, promises, n - 1)
           p == promises[n]
       IN IF p.state = "fulfilled"
          THEN [before EXCEPT ![p.rowIndex + 1] =
                  StoreResult(@, columnInfo, apiResultOf(p.reply).result)]
          ELSE before

\* task n of the round is what its own row at the start of the round and its
\* own response or failure make it
OwnOutcomeOnly(n) ==
  LET p == batchPromises[n]
      started == [rowIndex |-> rowsToProcess[n],
                  state |-> "pending",
                  prompt |-> fillPromptTemplate(columnConfig.prompt,
                                                RowAt(roundRows, rowsToProcess[n])),
                  reply |-> NoReply,
                  result |-> NoOutcome,
                  error |-> NoError]
  IN CASE p.state = "pending" -> p = started
       [] p.state = "fulfilled" ->
            p = [started EXCEPT !.state = "fulfilled", !.reply = p.reply,
                                !.result = RowOutcome(apiResultOf(p.reply), started.rowIndex)]
       [] OTHER -> p = [started EXCEPT !.state = "rejected", !.error = p.error]

\* the outcomes of the fulfilled tasks and the rows of the rejected ones, in
\* the order the tasks were started
OutcomesInStartOrder ==
  LET done == SelectSeq(batchPromises, LAMBDA p : p.state = "fulfilled")
  IN [n \in 1..Len(done) |-> RowOutcome(apiResultOf(done[n].reply), done[n].rowIndex)]

RejectedInStartOrder ==
  LET failed == SelectSeq(batchPromises, LAMBDA p : p.state = "rejected")
  IN [n \in 1..Len(failed) |-> failed[n].rowIndex]

\* C27: what a round leaves does not depend on the order in which its tasks
\* complete.  While a round is in flight every task is what its own row and its
\* own response make it, and the row set is the one the tasks would have left
\* had they completed in the order they were started; the round then hands on
\* the outcomes, the rows to retry and the retry count that follow from the
\* tasks taken in that order, and the totals are the sums of the outcomes
C27_OrderIndependent ==
  /\ [](pc = "await_all" =>
          /\ Len(batchPromises) = Len(rowsToProcess)
          /\ \A n \in 1..Len(batchPromises) : OwnOutcomeOnly(n)
          /\ rows = InStartOrder(roundRows, batchPromises, Len(batchPromises)))
  /\ [][(pc = "await_all" /\ pc' # "await_all") =>
          /\ rows' = rows
          /\ allResults' = allResults \o OutcomesInStartOrder
          /\ rowsToProcess' = RejectedInStartOrder
          /\ retryCount' = retryCount + (IF RejectedInStartOrder = <<>> THEN 0 ELSE 1)]_vars
  /\ [][(pc = "while" /\ pc' = "checkpoint") =>
          /\ processedCount' = processedCount + Len(allResults)
          /\ total'.cost = total.cost + SumOf(allResults, "cost")
          /\ total'.promptTokens = total.promptTokens + SumOf(allResults, "promptTokens")
          /\ total'.completionTokens =
               total.completionTokens + SumOf(allResults, "completionTokens")]_vars

\* the second task of a round has completed before the first
C27_Witness ==
  /\ pc = "await_all"
  /\ Len(batchPromises) = 2
  /\ batchPromises[1].state = "pending"
  /\ batchPromises[2].state = "fulfilled"
  /\ rows # roundRows

(***************************************************************************)
(* Termination, over the batch sizes validation lets through               *)
(***************************************************************************)
\* batchSize || 10 keeps every number but 0: the usual columns with batch size
\* 2, a column with batch size -1, and an input without records
SizeConfigs ==
  {[inputFileName |-> InputName, outputFileName |-> OutputCsv,
    columns |-> <<SingleColumn(2, 200), GroupColumn(2, 200)>>],
   [inputFileName |-> InputName, outputFileName |-> OutputCsv,
    columns |-> <<SingleColumn(-1, 0)>>],
   [inputFileName |-> EmptyName, outputFileName |-> OutputCsv,
    columns |-> <<SingleColumn(2, 0)>>]}

InitSizes ==
  /\ pc = "start"
  /\ config \in SizeConfigs
  /\ rows = <<>>
  /\ col = 0
  /\ grand = ZeroStats
  /\ i = 0
  /\ batchEnd = 0
  /\ processedCount = 0
  /\ total = ZeroStats
  /\ rowsToProcess = <<>>
  /\ allResults = <<>>
  /\ retryCount = 0
  /\ batchPromises = <<>>
  /\ sleeping = 0
  /\ progressFile = NoFile
  /\ outputFile = NoFile
  /\ thrown = NotThrown
  /\ attempts = <<>>
  /\ failures = <<>>
  /\ lastFailed = {}
  /\ backoffs = <<>>
  /\ ckptAttempts = 0
  /\ lastCkpt = "none"
  /\ finalWrites = 0
  /\ batchLog = <<>>
  /\ spent = <<>>
  /\ columnTotals = <<>>
  /\ doneRows = <<>>
  /\ errorSummary = <<>>
  /\ pauses = 0
  /\ roundRows = <<>>
  /\ orphans = EmptyBag

\* every model call settles, every sleep ends and every write returns: the
\* run takes a step whenever it has one to take
SpecSizes == InitSizes /\ [][Next]_vars /\ WF_vars(Next)

\* the process has ended
Terminated == pc \in {"done", "exit"}

\* C28: every run ends, and it ends by completing (or by being turned down at
\* validation or by a failed write of the output) or by the exhausted-retry
\* error; a batch takes no more than maxRetries + 1 rounds; every batch that
\* starts covers at least one row and ends no further than the last row, so
\* that a column goes through its rows and stops
C28_Terminates ==
  /\ <>Terminated
  /\ [](pc = "exit" => \/ thrown.isThrown
                        \/ rows = <<>>
                        \/ (col = totalColumns /\ finalWrites = 0))
  /\ [](InBatch => /\ retryCount <= maxRetries + 1
                    /\ \A j \in DOMAIN attempts : attempts[j] <= maxRetries + 1)
  /\ [][(pc = "batch_loop" /\ pc' = "while") =>
          /\ i >= 0
          /\ batchEnd' > i
          /\ batchEnd' <= totalRows]_vars

(***************************************************************************)
(* The whole-batch retry of src/unnamed/part_000: processBatch launches a   *)
(* task for every row of the batch, awaits Promise.all of them and, when    *)
(* it rejects, sleeps the backoff and launches the whole batch again        *)
(***************************************************************************)
\* axios.post(..., {timeout: 60000}): a model call settles within a minute
timeoutMs == 60000

WholeConfigs ==
  {[inputFileName |-> InputName, outputFileName |-> OutputCsv,
    columns |-> <<SingleColumn(2, 0)>>]}

\* the ranges processColumn hands to processBatch for three rows in batches of two
WholeRanges == {<<0, 2>>, <<2, 3>>}

\* processBatch(rows, batchStart, batchEnd, columnName, modelName, prompt) is
\* entered: retryCount = 0, at the head of the loop
InitWhole ==
  /\ pc = "while"
  /\ config \in WholeConfigs
  /\ rows = InputRows
  /\ col = 0
  /\ grand = ZeroStats
  /\ \E r \in WholeRanges : i = r[1] /\ batchEnd = r[2]
  /\ processedCount = 0
  /\ total = ZeroStats
  /\ rowsToProcess = <<>>
  /\ allResults = <<>>
  /\ retryCount = 0
  /\ batchPromises = <<>>
  /\ sleeping = 0
  /\ progressFile = NoFile
  /\ outputFile = NoFile
  /\ thrown = NotThrown
  /\ attempts = [j \in i..(batchEnd - 1) |-> 0]
  /\ failures = [j \in i..(batchEnd - 1) |-> 0]
  /\ lastFailed = {}
  /\ backoffs = <<>>
  /\ ckptAttempts = 0
  /\ lastCkpt = "none"
  /\ finalWrites = 0
  /\ batchLog = <<<<i, batchEnd>>>>
  /\ spent = [j \in 0..(NumRows - 1) |-> NothingSpent]
  /\ columnTotals = <<>>
  /\ doneRows = <<>>
  /\ errorSummary = <<>>
  /\ pauses = 0
  /\ roundRows = <<>>
  /\ orphans = EmptyBag

\* the async function of row j runs up to its await: the prompt is filled from
\* the row and the model call issued
WholePromise(j) ==
  [rowIndex |-> j,
   state |-> "pending",
   prompt |-> fillPromptTemplate(columnConfig.prompt, RowAt(rows, j)),
   reply |-> NoReply,
   result |-> NoOutcome,
   error |-> NoError]

\* while (retryCount <= maxRetries): one task for every row of the batch,
\* then await Promise.all(batchPromises)
WholeLaunch ==
  /\ pc = "while"
  /\ retryCount <= maxRetries
  /\ batchPromises' = [n \in 1..(batchEnd - i) |-> WholePromise(i + n - 1)]
  /\ attempts' = [j \in DOMAIN attempts |-> attempts[j] + 1]
  /\ pc' = "await_all"
  /\ UNCHANGED <<config, rows, mainVars, columnVars, rowsToProcess, allResults,
                 retryCount, failures, lastFailed, backoffs, errorSummary, orphans,
                 sleeping, fileVars, thrown, histVars>>

\* row[columnName] = apiResult.result, by the task that issued the call
WholeStore(rs, p, apiResult) ==
  [rs EXCEPT ![p.rowIndex + 1] = Put(@, columnConfig.name, Str(apiResult.result))]

SpentMore(sp, p, apiResult) ==
  [sp EXCEPT ![p.rowIndex] =
     [count |-> @.count + 1,
      cost |-> @.cost + apiResult.cost,
      promptTokens |-> @.promptTokens + apiResult.promptTokens,
      completionTokens |-> @.completionTokens + apiResult.completionTokens]]

\* the model call of a task of the attempt awaited returns: the task stores
\* the result in its row and is fulfilled
WholeTaskSucceeds ==
  /\ pc = "await_all"
  /\ \E n \in 1..Len(batchPromises) :
       LET p == batchPromises[n] IN
       /\ p.state = "pending"
       /\ failures[p.rowIndex] <= MaxTransientFailures
       /\ \E reply \in SingleReplies(p.prompt) :
            LET apiResult == apiResultOf(reply) IN
            /\ rows' = WholeStore(rows, p, apiResult)
            /\ batchPromises' = [batchPromises EXCEPT ![n] =
                     [p EXCEPT !.state = "fulfilled",
                               !.reply = reply,
                               !.result = RowOutcome(apiResult, p.rowIndex)]]
            /\ spent' = SpentMore(spent, p, apiResult)
  /\ UNCHANGED <<pc, config, mainVars, columnVars, rowsToProcess, allResults,
                 retryCount, attempts, failures, lastFailed, backoffs, errorSummary,
                 orphans, sleeping, fileVars, thrown, lastCkpt, finalWrites, batchLog,
                 columnTotals, doneRows, pauses, roundRows>>

\* every task of the attempt is fulfilled: Promise.all resolves and
\* processBatch returns batchResults
WholeReturn ==
  /\ pc = "await_all"
  /\ \A n \in 1..Len(batchPromises) : batchPromises[n].state = "fulfilled"
  /\ allResults' = [n \in 1..Len(batchPromises) |-> batchPromises[n].result]
  /\ batchPromises' = <<>>
  /\ pc' = "returned"
  /\ UNCHANGED <<config, rows, mainVars, columnVars, rowsToProcess, retryCount,
                 attempts, failures, lastFailed, backoffs, errorSummary, orphans,
                 sleeping, fileVars, thrown, histVars>>

\* the tasks of the attempt that are still awaiting their model call
StillPending(promises, failed) ==
  {n \in 1..Len(promises) : n # failed /\ promises[n].state = "pending"}

RECURSIVE BagOfPromises(_, _)
BagOfPromises(promises, ns) ==
  IF ns = {} THEN EmptyBag
  ELSE LET n == CHOOSE k \in ns : TRUE
       IN SetToBag({promises[n]}) (+) BagOfPromises(promises, ns \ {n})

\* throw new Error(`Batch failed after ${maxRetries} retries: ${errorMsg}`)
WholeError(e) ==
  [isThrown |-> TRUE, count |-> batchEnd - i, failedRows |-> <<>>,
   message |-> e.message]

\* the model call of a task of the attempt awaited throws: its promise is
\* rejected, Promise.all rejects with it at once, whatever the other tasks are
\* doing, and the catch block runs: retryCount++, then the throw or the backoff.
\* Nothing cancels the other tasks: those still pending stay in flight
WholeTaskFails ==
  /\ pc = "await_all"
  /\ \E n \in 1..Len(batchPromises) :
       /\ batchPromises[n].state = "pending"
       /\ failures' = [failures EXCEPT ![batchPromises[n].rowIndex] = @ + 1]
       /\ orphans' = orphans (+) BagOfPromises(batchPromises,
                                               StillPending(batchPromises, n))
       /\ \E e \in Errors :
            IF retryCount + 1 > maxRetries
            THEN /\ thrown' = WholeError(e)
                 /\ pc' = "exit"
                 /\ UNCHANGED <<sleeping, backoffs>>
            ELSE /\ sleeping' = BackoffMs(retryCount + 1)
                 /\ backoffs' = Append(backoffs, BackoffMs(retryCount + 1))
                 /\ pc' = "backoff"
                 /\ UNCHANGED thrown
  /\ retryCount' = retryCount + 1
  /\ batchPromises' = <<>>
  /\ UNCHANGED <<config, rows, mainVars, columnVars, rowsToProcess, allResults,
                 attempts, lastFailed, errorSummary, fileVars, histVars>>

\* sleep(backoffMs) is over: back to the head of the loop. A call issued
\* before a sleep of a minute or more has settled by then
WholeBackoffDone ==
  /\ pc = "backoff"
  /\ sleeping >= timeoutMs => orphans = EmptyBag
  /\ sleeping' = 0
  /\ pc' = "while"
  /\ UNCHANGED <<config, rows, mainVars, columnVars, batchVars, fileVars, thrown,
                 histVars>>

\* the model call of a task of an attempt given up returns: the task goes on
\* as written, and stores the result in its row
OrphanSucceeds ==
  /\ \E p \in BagToSet(orphans) :
       \E reply \in SingleReplies(p.prompt) :
         LET apiResult == apiResultOf(reply) IN
         /\ rows' = WholeStore(rows, p, apiResult)
         /\ spent' = SpentMore(spent, p, apiResult)
         /\ orphans' = orphans (-) SetToBag({p})
  /\ UNCHANGED <<pc, config, mainVars, columnVars, rowsToProcess, allResults,
                 retryCount, batchPromises, attempts, failures, lastFailed, backoffs,
                 errorSummary, sleeping, fileVars, thrown, lastCkpt, finalWrites,
                 batchLog, columnTotals, doneRows, pauses, roundRows>>

\* the model call of a task of an attempt given up throws: Promise.all has
\* rejected already, the rejection goes unnoticed
OrphanFails ==
  /\ \E p \in BagToSet(orphans) : orphans' = orphans (-) SetToBag({p})
  /\ UNCHANGED <<pc, config, rows, mainVars, columnVars, rowsToProcess, allResults,
                 retryCount, batchPromises, attempts, failures, lastFailed, backoffs,
                 errorSummary, sleeping, fileVars, thrown, histVars>>

NextWhole ==
  \/ WholeLaunch
  \/ WholeTaskSucceeds
  \/ WholeReturn
  \/ WholeTaskFails
  \/ WholeBackoffDone
  \/ OrphanSucceeds
  \/ OrphanFails

SpecWhole == InitWhole /\ [][NextWhole]_vars

\* the tasks in flight for row j: those of the attempt awaited and those of
\* the attempts given up
InFlightFor(j) ==
  Cardinality({n \in 1..Len(batchPromises) :
                 batchPromises[n].rowIndex = j /\ batchPromises[n].state = "pending"})
  + BagCardinality([p \in {q \in BagToSet(orphans) : q.rowIndex = j} |-> orphans[p]])

\* C29: in the whole-batch retry no row has two tasks in flight at once: when
\* the batch is launched again after the backoff, no task of an earlier
\* attempt is still awaiting its model call for a row of the batch
C29_WholeRetryOneTaskPerRow ==
  \A j \in 0..(Len(rows) - 1) : InFlightFor(j) <= 1

====
